---- MODULE Spec2Model ----
(***************************************************************************)
(* A model of qutebrowser's CommandDispatcher                               *)
(* (src/qutebrowser/browser/commands.py).                                   *)
(*                                                                          *)
(* The dispatcher is glue over the tab container, so the model keeps the    *)
(* container's state (per window: the ordered tabs, the current index, the  *)
(* tab bar's selection behaviour, the stored search) and, for every         *)
(* command, the outcome the command framework sees: the error raised (err), *)
(* the toolkit calls made (calls) and the messages shown (msgs).            *)
(*                                                                          *)
(* Python's None is the empty tuple, a value v that may be None is <<v>>.   *)
(* Indices are 0-based as in the code; tabs[i + 1] is the tab at index i.   *)
(***************************************************************************)
EXTENDS Integers, Sequences, FiniteSets, TLC

VARIABLES
    windows,      \* objreg.window_registry: win_id -> the window's tabbed browser
    config,       \* config.val: tabs.wrap, tabs.select_on_remove, search.ignore_case
    prompt,       \* the pending message.confirm_async question (pinned-tab confirmation)
    cmd,          \* the command that ran and has not yet returned to the event loop
    args,         \* its arguments
    err,          \* the error it raised (NoError when it returned)
    ret,          \* what its target resolution / helper returned
    calls,        \* toolkit calls it made, in order
    msgs          \* messages it showed or logged, in order

vars == <<windows, config, prompt, cmd, args, err, ret, calls, msgs>>

----------------------------------------------------------------------------
(* Bounds of the model *)

MaxTabs == 2        \* tabs per window, for the commands on the [count]th tab
MaxNavTabs == 3     \* tabs per window, for switching and moving tabs
MaxLen == 5         \* characters of a URL input, for parsing it
MaxOpenLen == 3     \* characters of a URL input, for opening it
MaxOpenTabs == 2    \* tabs of the window a URL is opened from

MinCount == 0 - 1
MaxCount == MaxNavTabs + 2
Counts == MinCount .. MaxCount          \* count arguments tried

----------------------------------------------------------------------------
(* Values *)

None == <<>>
Some(v) == <<v>>
Val(o) == o[1]

NoError == ""
ErrExclusive(names) == "Only one of " \o names \o " can be given!"
ErrNoWebView == "No WebView available yet!"
ErrLastUsed == "-o is not supported with 'tabs.select_on_remove' set to 'last-used'!"
ErrCantMove == "Can't move tab to position!"
ErrOverflow == "Numeric argument is too large for internal int representation."
ErrZeroDivision == "ZeroDivisionError"
ErrWebTab == "WebTabError"
ErrInvalidUrl == "Invalid URL"
ErrTabDeleted == "TabDeletedError"

raise_nothing(fails, e) == NoError

\* try: ... except <toolkit error> as e: raise cmdexc.CommandError(e)
\* fails: the delegated call raises the error e.
raise_CommandError(fails, e) == IF fails THEN e ELSE NoError

SelectLeftTab == "SelectLeftTab"
SelectRightTab == "SelectRightTab"
SelectPreviousTab == "SelectPreviousTab"
SelectionBehaviors == {SelectLeftTab, SelectRightTab, SelectPreviousTab}

OptCounts == {None} \cup {Some(c) : c \in Counts}

Call(op, tab, arg) == [op |-> op, tab |-> tab, arg |-> arg]

\* Python's a % b for b > 0 has the sign of b, as TLA+'s % has.
PyMod(a, b) == a % b

\* cmdutils.check_exclusive: more than one truthy flag is an error.
Truthy(flags) == {i \in DOMAIN flags : flags[i]}
check_exclusive(flags, names) ==
    IF Cardinality(Truthy(flags)) > 1 THEN ErrExclusive(names) ELSE NoError

\* cmdutils.check_overflow(x, 'int'): x must fit a C int.
check_overflow(x) ==
    IF x > 2147483647 \/ x < 0 - 2147483647 - 1 THEN ErrOverflow ELSE NoError

----------------------------------------------------------------------------
(* The tab container of one window *)

AboutBlank == <<"a">>

NewTab(id, url) ==
    [id |-> id, url |-> url, pinned |-> FALSE,
     search_text |-> None, search_displayed |-> FALSE, search_reverse |-> FALSE,
     pos |-> 0, mark |-> None]

NewWindow(private, selection) ==
    [tabs |-> <<>>, cur |-> 0 - 1, private |-> private,
     selection_behavior |-> selection,
     search_text |-> None, search_options |-> None,
     callbacks |-> {}, fullscreen |-> FALSE]

\* self._count()
_count(w) == Len(windows[w].tabs)

\* self._current_index()
_current_index(w) == windows[w].cur

\* QTabWidget.widget(idx): the tab at idx, nothing outside the sequence.
widget(w, idx) ==
    IF 0 <= idx /\ idx < _count(w) THEN Some(windows[w].tabs[idx + 1].id) ELSE None

\* QTabWidget.currentWidget()
currentWidget(w) == widget(w, windows[w].cur)

\* QTabWidget.indexOf(tab): -1 when the tab is not in the container.
indexOf(tabs, id) ==
    IF \E i \in DOMAIN tabs : tabs[i].id = id
    THEN (CHOOSE i \in DOMAIN tabs : tabs[i].id = id) - 1
    ELSE 0 - 1

\* QTabWidget.widget(idx) of a given container
TabAtIndex(win, idx) ==
    IF 0 <= idx /\ idx < Len(win.tabs) THEN Some(win.tabs[idx + 1].id) ELSE None

TabIds(w) == {windows[w].tabs[i].id : i \in DOMAIN windows[w].tabs}

TabById(w, id) == windows[w].tabs[indexOf(windows[w].tabs, id) + 1]

RemoveAt(s, i) == SubSeq(s, 1, i - 1) \o SubSeq(s, i + 1, Len(s))

InsertAt(s, i, e) == SubSeq(s, 1, i - 1) \o <<e>> \o SubSeq(s, i, Len(s))

----------------------------------------------------------------------------
(* Target resolution *)

\* The count-th tab, the current one without a count, None outside the
\* sequence.  indexed is the index handed to widget(), None if it is not called.
_cntwidget_off_by_one(w, count) ==
    IF count = None
    THEN [tab |-> currentWidget(w), indexed |-> None]
    ELSE IF 0 <= Val(count) /\ Val(count) <= _count(w)
         THEN [tab |-> widget(w, Val(count) - 1), indexed |-> Some(Val(count) - 1)]
         ELSE [tab |-> None, indexed |-> None]

_cntwidget(w, count) ==
    IF count = None
    THEN [tab |-> currentWidget(w), indexed |-> None]
    ELSE IF 1 <= Val(count) /\ Val(count) <= _count(w)
         THEN [tab |-> widget(w, Val(count) - 1), indexed |-> Some(Val(count) - 1)]
         ELSE [tab |-> None, indexed |-> None]

----------------------------------------------------------------------------
(* Opening and closing tabs in the container *)

\* TabbedBrowser.tabopen: a new tab with identity id; a related tab goes next
\* to the current one, any other at the end; a foreground tab (and the first
\* tab of an empty container) becomes current.
tabopen(win, id, url, background, related) ==
    LET n == Len(win.tabs)
        at == IF related /\ win.cur >= 0 THEN win.cur + 1 ELSE n
    IN [win EXCEPT !.tabs = InsertAt(win.tabs, at + 1, NewTab(id, url)),
                   !.cur = IF background /\ win.cur >= 0 THEN win.cur ELSE at]

\* QTabBar.removeTab: the index that is current once the tab at index idx is
\* gone.  A removed current tab is replaced according to the selection
\* behaviour; the previously selected tab (SelectPreviousTab) is any other tab.
CurrentAfterRemove(n, cur, idx, behavior) ==
    IF n = 1 THEN {0 - 1}
    ELSE IF idx < cur THEN {cur - 1}
    ELSE IF idx > cur THEN {cur}
    ELSE IF behavior = SelectLeftTab THEN {IF cur > 0 THEN cur - 1 ELSE 0}
    ELSE IF behavior = SelectRightTab THEN {IF cur < n - 1 THEN cur ELSE n - 2}
    ELSE 0 .. (n - 2)

\* TabbedBrowser.close_tab: the windows the container can be in afterwards.
close_tab(win, id) ==
    LET idx == indexOf(win.tabs, id) IN
    IF idx = 0 - 1 THEN {win}
    ELSE {[win EXCEPT !.tabs = RemoveAt(win.tabs, idx + 1), !.cur = c] :
            c \in CurrentAfterRemove(Len(win.tabs), win.cur, idx, win.selection_behavior)}

AllTabIds(ws) == UNION {{ws[w].tabs[i].id : i \in DOMAIN ws[w].tabs} : w \in DOMAIN ws}

\* The identity of a new tab object: one no live tab has.
NewTabId(ws) == CHOOSE id \in 1 .. (Cardinality(AllTabIds(ws)) + 1) : id \notin AllTabIds(ws)

----------------------------------------------------------------------------
(* Closing a tab *)

\* The selection behaviour to force while closing: [err, val].
_get_selection_override_no_check(prev, next_, opposite) ==
    IF prev THEN [err |-> NoError, val |-> Some(SelectLeftTab)]
    ELSE IF next_ THEN [err |-> NoError, val |-> Some(SelectRightTab)]
    ELSE IF opposite THEN
        IF config.select_on_remove = SelectLeftTab
        THEN [err |-> NoError, val |-> Some(SelectRightTab)]
        ELSE IF config.select_on_remove = SelectRightTab
        THEN [err |-> NoError, val |-> Some(SelectLeftTab)]
        ELSE [err |-> NoError, val |-> None]
    ELSE [err |-> NoError, val |-> None]

_get_selection_override(prev, next_, opposite) ==
    IF check_exclusive(<<prev, next_, opposite>>, "-p/-n/-o") # NoError
    THEN [err |-> check_exclusive(<<prev, next_, opposite>>, "-p/-n/-o"), val |-> None]
    ELSE IF prev THEN [err |-> NoError, val |-> Some(SelectLeftTab)]
    ELSE IF next_ THEN [err |-> NoError, val |-> Some(SelectRightTab)]
    ELSE IF opposite THEN
        IF config.select_on_remove = SelectLeftTab
        THEN [err |-> NoError, val |-> Some(SelectRightTab)]
        ELSE IF config.select_on_remove = SelectRightTab
        THEN [err |-> NoError, val |-> Some(SelectLeftTab)]
        ELSE [err |-> ErrLastUsed, val |-> None]
    ELSE [err |-> NoError, val |-> None]

\* _tab_close: the outcomes [win, err, override, sel] of closing tab id of
\* window win; override is what _get_selection_override returned, sel the
\* selection behaviour in force during close_tab.
_tab_close(win, id, prev, next_, opposite) ==
    LET selection_override == _get_selection_override(prev, next_, opposite)
        \* TabbedBrowser.close_tab raises for a tab the window no longer has
        deleted == indexOf(win.tabs, id) = 0 - 1
    IN
    IF selection_override.err # NoError
    THEN {[win |-> win, err |-> selection_override.err, override |-> None, sel |-> None]}
    ELSE IF selection_override.val = None
    THEN IF deleted
         THEN {[win |-> win, err |-> ErrTabDeleted, override |-> None,
                sel |-> Some(win.selection_behavior)]}
         ELSE {[win |-> w2, err |-> NoError, override |-> None,
                sel |-> Some(win.selection_behavior)] : w2 \in close_tab(win, id)}
    ELSE LET old_selection_behavior == win.selection_behavior
             forced == [win EXCEPT !.selection_behavior = Val(selection_override.val)]
         IN IF deleted
            THEN {[win |-> forced, err |-> ErrTabDeleted,
                   override |-> selection_override.val, sel |-> selection_override.val]}
            ELSE {[win |-> [w2 EXCEPT !.selection_behavior = old_selection_behavior],
                   err |-> NoError, override |-> selection_override.val,
                   sel |-> selection_override.val] : w2 \in close_tab(forced, id)}

----------------------------------------------------------------------------
(* Text and URLs *)

\* Text is a sequence of characters.  What the URL utilities make of a line
\* depends on its first character once stripped: "u" starts a valid URL, "/"
\* an existing path, "!" something fuzzy_url rejects; anything else is a
\* search term.  "q" alone is the name of a quickmark.
Newline == "\n"
Blank == " "
Chars == {"u", "/", "!", "s", "q", Blank, Newline}
Whitespace == {Blank, Newline}

RECURSIVE Texts(_, _)
Texts(alphabet, n) ==
    IF n = 0 THEN {<<>>}
    ELSE LET shorter == Texts(alphabet, n - 1) IN
         shorter \cup {<<c>> \o t : c \in alphabet, t \in {x \in shorter : Len(x) = n - 1}}

\* str.split('\n')
RECURSIVE split(_)
split(text) ==
    IF \A i \in DOMAIN text : text[i] # Newline THEN <<text>>
    ELSE LET i == CHOOSE k \in DOMAIN text :
                    text[k] = Newline /\ \A j \in 1 .. (k - 1) : text[j] # Newline
         IN <<SubSeq(text, 1, i - 1)>> \o split(SubSeq(text, i + 1, Len(text)))

\* str.strip()
RECURSIVE strip(_)
strip(text) ==
    IF text = <<>> THEN text
    ELSE IF Head(text) \in Whitespace THEN strip(Tail(text))
    ELSE IF text[Len(text)] \in Whitespace THEN strip(SubSeq(text, 1, Len(text) - 1))
    ELSE text

FirstChar(text) == IF strip(text) = <<>> THEN "" ELSE Head(strip(text))

\* urlutils.is_url
is_url(urlstr) == FirstChar(urlstr) = "u"

\* urlutils.get_path_if_valid(urlstr, check_exists=True): [path] or None
get_path_if_valid(urlstr) ==
    IF FirstChar(urlstr) = "/" THEN Some(strip(urlstr)) ELSE None

\* QUrl.isValid
isValid(url) == url # <<>> /\ Head(url) # "!"

\* objreg.get('quickmark-manager'): the quickmarks, by name
Quickmarks == [name \in {<<"q">>} |-> <<"u", "q">>]

UrlError == "urlmarks.Error"
InvalidUrlError == "InvalidUrlError"

\* QuickmarkManager.get(name): [err, url]
quickmark_get(name) ==
    IF name \in DOMAIN Quickmarks
    THEN [err |-> NoError, url |-> Quickmarks[name]]
    ELSE [err |-> UrlError, url |-> <<>>]

\* urlutils.fuzzy_url(urlstr, force_search=...): [err, url].  A path becomes a
\* file URL, a search term the search engine's URL for it.
fuzzy_url(urlstr, force_search) ==
    LET stripped == strip(urlstr)
        path == get_path_if_valid(stripped)
        url == IF ~force_search /\ path # None THEN <<"f">> \o Val(path)
               ELSE IF force_search \/ ~is_url(stripped) THEN <<"?">> \o stripped
               ELSE stripped
    IN IF ~force_search /\ FirstChar(stripped) = "!"
       THEN [err |-> InvalidUrlError, url |-> <<>>]
       ELSE [err |-> NoError, url |-> url]

----------------------------------------------------------------------------
(* What a command leaves behind for the command framework *)

Outcome(c, a, e, r, cl, m) ==
    /\ cmd' = c
    /\ args' = a
    /\ err' = e
    /\ ret' = r
    /\ calls' = cl
    /\ msgs' = m

Idle == "idle"

\* A command is dispatched from the event loop in normal mode: no command is
\* running and no yes/no question is open.
Dispatch == cmd = Idle /\ prompt = None

SetWindow(w, win) ==
    /\ windows' = [windows EXCEPT ![w] = win]
    /\ UNCHANGED prompt

Frame == UNCHANGED <<windows, prompt>>

\* The command framework has reported the outcome; back to the event loop.
Return ==
    /\ cmd # Idle
    /\ UNCHANGED <<windows, config, prompt>>
    /\ Outcome(Idle, None, NoError, None, <<>>, <<>>)

----------------------------------------------------------------------------
(* The tabbed browser opens a tab (a link, a session, the start page) *)

TabOpen(w, background, related) ==
    /\ Dispatch
    /\ SetWindow(w, tabopen(windows[w], NewTabId(windows), AboutBlank, background, related))
    /\ Outcome("tabopen", [w |-> w, background |-> background, related |-> related],
               NoError, None, <<>>, <<>>)
    /\ UNCHANGED config

----------------------------------------------------------------------------
(* tab-close, and the confirmation for pinned tabs *)

tab_close(w, prev, next_, opposite, force, count) ==
    LET tab == _cntwidget(w, count) @@ [override |-> None]
        a == [w |-> w, prev |-> prev, next_ |-> next_, opposite |-> opposite,
              force |-> force, count |-> count]
    IN
    /\ Dispatch
    /\ UNCHANGED config
    /\ IF tab.tab = None
       THEN /\ Frame
            /\ Outcome("tab_close", a, NoError, tab, <<>>, <<>>)
       ELSE IF TabById(w, Val(tab.tab)).pinned /\ ~force
       THEN \* tab_close_prompt_if_pinned: ask first, close from the prompt
            /\ prompt' = Some([w |-> w, tab |-> Val(tab.tab), prev |-> prev,
                                next_ |-> next_, opposite |-> opposite,
                                yes_action |-> "_tab_close"])
            /\ UNCHANGED windows
            /\ Outcome("tab_close", a, NoError, tab,
                       <<Call("confirm_async", Val(tab.tab), "Pinned Tab")>>, <<>>)
       ELSE \E o \in _tab_close(windows[w], Val(tab.tab), prev, next_, opposite) :
            /\ SetWindow(w, o.win)
            /\ Outcome("tab_close", a, o.err, [tab EXCEPT !.override = o.override],
                       IF o.err = NoError
                       THEN <<Call("close_tab", Val(tab.tab), Val(o.sel))>>
                       ELSE <<>>,
                       <<>>)

\* The user confirms the prompt: its yes_action, _tab_close, runs.
confirm_yes ==
    /\ cmd = Idle
    /\ prompt # None
    /\ Val(prompt).yes_action = "_tab_close"
    /\ UNCHANGED config
    /\ LET p == Val(prompt) IN
       \E o \in _tab_close(windows[p.w], p.tab, p.prev, p.next_, p.opposite) :
            /\ windows' = [windows EXCEPT ![p.w] = o.win]
            /\ prompt' = None
            /\ Outcome("_tab_close", p, o.err,
                       [tab |-> Some(p.tab), indexed |-> None, override |-> o.override],
                       IF o.err = NoError
                       THEN <<Call("close_tab", p.tab, Val(o.sel))>>
                       ELSE <<>>,
                       <<>>)

\* The user declines the prompt: nothing runs.
confirm_no ==
    /\ cmd = Idle
    /\ prompt # None
    /\ prompt' = None
    /\ UNCHANGED <<windows, config>>
    /\ Outcome("confirm_no", Val(prompt), NoError, None, <<>>, <<>>)

----------------------------------------------------------------------------
(* The other commands on the current/[count]th tab *)

tab_pin(w, count) ==
    LET tab == _cntwidget(w, count)
        a == [w |-> w, count |-> count]
    IN
    /\ Dispatch
    /\ UNCHANGED config
    /\ IF tab.tab = None
       THEN /\ Frame
            /\ Outcome("tab_pin", a, NoError, tab, <<>>, <<>>)
       ELSE LET idx == indexOf(windows[w].tabs, Val(tab.tab))
                to_pin == ~windows[w].tabs[idx + 1].pinned
            IN /\ SetWindow(w, [windows[w] EXCEPT !.tabs[idx + 1].pinned = to_pin])
               /\ Outcome("tab_pin", a, NoError, tab,
                          <<Call("set_tab_pinned", Val(tab.tab),
                                 IF to_pin THEN "True" ELSE "False")>>, <<>>)

reloadpage(w, force, count) ==
    LET tab == _cntwidget(w, count)
        a == [w |-> w, force |-> force, count |-> count]
    IN
    /\ Dispatch
    /\ UNCHANGED config
    /\ Frame
    /\ Outcome("reload", a, NoError, tab,
               IF tab.tab # None
               THEN <<Call("reload", Val(tab.tab), IF force THEN "force" ELSE "")>>
               ELSE <<>>,
               <<>>)

stop(w, count) ==
    LET tab == _cntwidget(w, count)
        a == [w |-> w, count |-> count]
    IN
    /\ Dispatch
    /\ UNCHANGED config
    /\ Frame
    /\ Outcome("stop", a, NoError, tab,
               IF tab.tab # None THEN <<Call("stop", Val(tab.tab), "")>> ELSE <<>>,
               <<>>)

\* print: mode is "preview", "pdf" or "dialog"; the tab's printing may raise
\* WebTabError (fails), which becomes the command error.
printpage(w, mode, count, fails) ==
    LET tab == _cntwidget(w, count)
        a == [w |-> w, mode |-> mode, count |-> count, fails |-> fails]
    IN
    /\ Dispatch
    /\ UNCHANGED config
    /\ Frame
    /\ IF tab.tab = None
       THEN Outcome("print", a, NoError, tab, <<>>, <<>>)
       ELSE Outcome("print", a, raise_CommandError(fails, ErrWebTab), tab,
                    <<Call("printing", Val(tab.tab), mode)>>, <<>>)

\* tab-mute: toggle_muted may raise WebTabError (fails).
tab_mute(w, count, fails) ==
    LET tab == _cntwidget(w, count)
        a == [w |-> w, count |-> count, fails |-> fails]
    IN
    /\ Dispatch
    /\ UNCHANGED config
    /\ Frame
    /\ IF tab.tab = None
       THEN Outcome("tab_mute", a, NoError, tab, <<>>, <<>>)
       ELSE Outcome("tab_mute", a, raise_CommandError(fails, ErrWebTab), tab,
                    <<Call("toggle_muted", Val(tab.tab), "")>>, <<>>)

----------------------------------------------------------------------------
(* Switching and moving tabs *)

\* QTabWidget.setCurrentIndex: an index outside the sequence is ignored.
setCurrentIndex(win, idx) ==
    IF 0 <= idx /\ idx < Len(win.tabs) THEN [win EXCEPT !.cur = idx] ELSE win

\* self._set_current_index: [err, win]
_set_current_index(win, idx) ==
    IF check_overflow(idx) # NoError
    THEN [err |-> check_overflow(idx), win |-> win]
    ELSE [err |-> NoError, win |-> setCurrentIndex(win, idx)]

\* QTabBar.moveTab(from, to): the tab at from gets index to; the current tab
\* stays current.
moveTab(win, from, to) ==
    LET moved == InsertAt(RemoveAt(win.tabs, from + 1), to + 1, win.tabs[from + 1])
        curid == win.tabs[win.cur + 1].id
    IN [win EXCEPT !.tabs = moved, !.cur = indexOf(moved, curid)]

\* tab-prev: the outcome [err, win, msgs] for the window.
tab_prev_clamped(win, count) ==
    IF Len(win.tabs) = 0 THEN [err |-> NoError, win |-> win, msgs |-> <<>>]
    ELSE LET newidx == win.cur - count IN
         IF newidx >= 0
         THEN _set_current_index(win, newidx) @@ [msgs |-> <<>>]
         ELSE _set_current_index(win, 0) @@ [msgs |-> <<>>]

tab_prev_outcome(win, count) ==
    IF Len(win.tabs) = 0 THEN [err |-> NoError, win |-> win, msgs |-> <<>>]
    ELSE LET newidx == win.cur - count IN
         IF newidx >= 0
         THEN _set_current_index(win, newidx) @@ [msgs |-> <<>>]
         ELSE IF config.wrap
         THEN _set_current_index(win, PyMod(newidx, Len(win.tabs))) @@ [msgs |-> <<>>]
         ELSE [err |-> NoError, win |-> win, msgs |-> <<"debug: First tab">>]

\* tab-next: the outcome [err, win, msgs] for the window.
tab_next_clamped(win, count) ==
    IF Len(win.tabs) = 0 THEN [err |-> NoError, win |-> win, msgs |-> <<>>]
    ELSE LET newidx == win.cur + count IN
         IF newidx < Len(win.tabs)
         THEN _set_current_index(win, newidx) @@ [msgs |-> <<>>]
         ELSE _set_current_index(win, Len(win.tabs) - 1) @@ [msgs |-> <<>>]

tab_next_outcome(win, count) ==
    IF Len(win.tabs) = 0 THEN [err |-> NoError, win |-> win, msgs |-> <<>>]
    ELSE LET newidx == win.cur + count IN
         IF newidx < Len(win.tabs)
         THEN _set_current_index(win, newidx) @@ [msgs |-> <<>>]
         ELSE IF config.wrap
         THEN _set_current_index(win, PyMod(newidx, Len(win.tabs))) @@ [msgs |-> <<>>]
         ELSE [err |-> NoError, win |-> win, msgs |-> <<"debug: Last tab">>]

tab_prev(w, count) ==
    LET o == tab_prev_outcome(windows[w], count) IN
    /\ Dispatch
    /\ UNCHANGED config
    /\ SetWindow(w, o.win)
    /\ Outcome("tab_prev", [w |-> w, count |-> count], o.err, None, <<>>, o.msgs)

tab_next(w, count) ==
    LET o == tab_next_outcome(windows[w], count) IN
    /\ Dispatch
    /\ UNCHANGED config
    /\ SetWindow(w, o.win)
    /\ Outcome("tab_next", [w |-> w, count |-> count], o.err, None, <<>>, o.msgs)

\* The index argument of tab-move: absent, '+', '-' or an integer.
NoIndex == [kind |-> "none", val |-> 0]
Plus == [kind |-> "+", val |-> 0]
Minus == [kind |-> "-", val |-> 0]
IntIndex(i) == [kind |-> "int", val |-> i]
MoveIndexes ==
    {NoIndex, Plus, Minus} \cup
    {IntIndex(i) : i \in (0 - MaxNavTabs - 1) .. (MaxNavTabs + 1)}

\* tab-move: the position asked for, [err, new_idx].
tab_move_clamped(win, index, count) ==
    LET n == Len(win.tabs) IN
    IF index.kind \in {"+", "-"}
    THEN LET delta == IF count = None THEN 1 ELSE Val(count)
             new_idx == IF index.kind = "-" THEN win.cur - delta ELSE win.cur + delta
         IN IF config.wrap
            THEN IF n = 0 THEN [err |-> ErrZeroDivision, new_idx |-> new_idx]
                 ELSE [err |-> NoError, new_idx |-> PyMod(new_idx, n)]
            ELSE [err |-> NoError,
                  new_idx |-> IF new_idx < 0 THEN 0
                              ELSE IF new_idx >= n THEN n - 1 ELSE new_idx]
    ELSE IF count # None THEN [err |-> NoError, new_idx |-> Val(count) - 1]
    ELSE IF index.kind = "int"
    THEN [err |-> NoError,
          new_idx |-> IF index.val >= 0 THEN index.val - 1 ELSE index.val + n]
    ELSE [err |-> NoError, new_idx |-> 0]

tab_move_index_first(win, index, count) ==
    LET n == Len(win.tabs) IN
    IF index.kind \in {"+", "-"}
    THEN LET delta == IF count = None THEN 1 ELSE Val(count)
             new_idx == IF index.kind = "-" THEN win.cur - delta ELSE win.cur + delta
         IN IF config.wrap
            THEN IF n = 0 THEN [err |-> ErrZeroDivision, new_idx |-> new_idx]
                 ELSE [err |-> NoError, new_idx |-> PyMod(new_idx, n)]
            ELSE [err |-> NoError, new_idx |-> new_idx]
    ELSE IF index.kind = "int"
    THEN [err |-> NoError,
          new_idx |-> IF index.val >= 0 THEN index.val - 1 ELSE index.val + n]
    ELSE IF count # None THEN [err |-> NoError, new_idx |-> Val(count) - 1]
    ELSE [err |-> NoError, new_idx |-> 0]

tab_move_target(win, index, count) ==
    LET n == Len(win.tabs) IN
    IF index.kind \in {"+", "-"}
    THEN LET delta == IF count = None THEN 1 ELSE Val(count)
             new_idx == IF index.kind = "-" THEN win.cur - delta ELSE win.cur + delta
         IN IF config.wrap
            THEN IF n = 0 THEN [err |-> ErrZeroDivision, new_idx |-> new_idx]
                 ELSE [err |-> NoError, new_idx |-> PyMod(new_idx, n)]
            ELSE [err |-> NoError, new_idx |-> new_idx]
    ELSE IF count # None THEN [err |-> NoError, new_idx |-> Val(count) - 1]
    ELSE IF index.kind = "int"
    THEN [err |-> NoError,
          new_idx |-> IF index.val >= 0 THEN index.val - 1 ELSE index.val + n]
    ELSE [err |-> NoError, new_idx |-> 0]

\* tab-move: the outcome [err, win].
tab_move_outcome(win, index, count) ==
    LET t == tab_move_target(win, index, count) IN
    IF t.err # NoError THEN [err |-> t.err, win |-> win]
    ELSE IF ~(0 <= t.new_idx /\ t.new_idx < Len(win.tabs))
    THEN [err |-> ErrCantMove, win |-> win]
    ELSE IF check_overflow(win.cur) # NoError
    THEN [err |-> check_overflow(win.cur), win |-> win]
    ELSE IF check_overflow(t.new_idx) # NoError
    THEN [err |-> check_overflow(t.new_idx), win |-> win]
    ELSE [err |-> NoError, win |-> moveTab(win, win.cur, t.new_idx)]

tab_move(w, index, count) ==
    LET o == tab_move_outcome(windows[w], index, count) IN
    /\ Dispatch
    /\ UNCHANGED config
    /\ SetWindow(w, o.win)
    /\ Outcome("tab_move", [w |-> w, index |-> index, count |-> count], o.err, None,
               IF o.err = NoError
               THEN <<Call("moveTab", windows[w].tabs[windows[w].cur + 1].id, "")>>
               ELSE <<>>,
               <<>>)

---------------------------------------------------------------------------------------------------------------------------------------------------
(* Specification: the commands on the current/[count]th tab of one window *)

Configs ==
    [wrap : BOOLEAN, select_on_remove : SelectionBehaviors, ignore_case : {FALSE}]

InitOutcome ==
    /\ prompt = None
    /\ cmd = Idle
    /\ args = None
    /\ err = NoError
    /\ ret = None
    /\ calls = <<>>
    /\ msgs = <<>>

\* A window just constructed, without a tab yet; tabs.wrap at its default.
Init ==
    /\ config \in {c \in Configs : c.wrap}
    /\ windows = [w \in {0} |-> NewWindow(FALSE, config.select_on_remove)]
    /\ InitOutcome

Next ==
    \/ Return
    \/ \E w \in DOMAIN windows, background, related \in BOOLEAN :
            _count(w) < MaxTabs /\ TabOpen(w, background, related)
    \/ \E w \in DOMAIN windows, prev, next_, opposite, force \in BOOLEAN,
          count \in OptCounts : tab_close(w, prev, next_, opposite, force, count)
    \/ confirm_yes
    \/ confirm_no
    \/ \E w \in DOMAIN windows, count \in OptCounts : tab_pin(w, count)
    \/ \E w \in DOMAIN windows, force \in BOOLEAN, count \in OptCounts :
            reloadpage(w, force, count)
    \/ \E w \in DOMAIN windows, count \in OptCounts : stop(w, count)
    \/ \E w \in DOMAIN windows, mode \in {"preview", "pdf", "dialog"},
          count \in OptCounts, fails \in BOOLEAN : printpage(w, mode, count, fails)
    \/ \E w \in DOMAIN windows, count \in OptCounts, fails \in BOOLEAN :
            tab_mute(w, count, fails)

Spec == Init /\ [][Next]_vars

----------------------------------------------------------------------------
(* Specification: switching and moving tabs; tabs.select_on_remove at its   *)
(* default, tabs.wrap either way                                            *)

InitNav ==
    /\ config \in {c \in Configs : c.select_on_remove = SelectRightTab}
    /\ windows = [w \in {0} |-> NewWindow(FALSE, config.select_on_remove)]
    /\ InitOutcome

NextNav ==
    \/ Return
    \/ \E w \in DOMAIN windows, background, related \in BOOLEAN :
            _count(w) < MaxNavTabs /\ TabOpen(w, background, related)
    \/ \E w \in DOMAIN windows, count \in OptCounts :
            tab_close(w, FALSE, FALSE, FALSE, FALSE, count)
    \/ \E w \in DOMAIN windows, count \in Counts : tab_prev(w, count)
    \/ \E w \in DOMAIN windows, count \in Counts : tab_next(w, count)
    \/ \E w \in DOMAIN windows, index \in MoveIndexes, count \in OptCounts :
            tab_move(w, index, count)

SpecNav == InitNav /\ [][NextNav]_vars

----------------------------------------------------------------------------
(* Properties of target resolution and of the commands that use it *)

CntCommands == {"tab_close", "tab_pin", "reload", "stop", "print", "tab_mute"}

InRange(count, n) == count # None /\ 1 <= Val(count) /\ Val(count) <= n

TabAt(win, idx) ==
    IF 0 <= idx /\ idx < Len(win.tabs) THEN Some(win.tabs[idx + 1].id) ELSE None

\* C1: _cntwidget returns the current tab without a count, the tab at 0-based
\* position count - 1 for a count in [1, tab_count], and no tab for any other
\* count, never handing widget() an index outside the sequence; a command
\* called with such a count changes nothing, calls nothing and raises nothing.
C1_TargetResolution ==
    [][cmd' \in CntCommands =>
        LET win == windows[args'.w]
            count == args'.count
            n == Len(win.tabs)
        IN /\ count = None => ret'.tab = TabAt(win, win.cur) /\ ret'.indexed = None
           /\ InRange(count, n) =>
                /\ ret'.tab = Some(win.tabs[Val(count)].id)
                /\ ret'.indexed = Some(Val(count) - 1)
           /\ (count # None /\ ~InRange(count, n)) =>
                /\ ret'.tab = None
                /\ ret'.indexed = None
                /\ windows' = windows
                /\ prompt' = prompt
                /\ calls' = <<>>
                /\ err' = NoError
           /\ ret'.indexed # None =>
                0 <= Val(ret'.indexed) /\ Val(ret'.indexed) < n]_vars

\* tab-close ran with count = tab_count + 1 in a window that has tabs.
C1_Witness ==
    /\ cmd = "tab_close"
    /\ args.count # None
    /\ Len(windows[args.w].tabs) >= 1
    /\ Val(args.count) = Len(windows[args.w].tabs) + 1
    /\ ret.tab = None

----------------------------------------------------------------------------
(* Properties of the selection override *)

FlagCount(a) ==
    (IF a.prev THEN 1 ELSE 0) + (IF a.next_ THEN 1 ELSE 0) + (IF a.opposite THEN 1 ELSE 0)

Inverse(behavior) == IF behavior = SelectLeftTab THEN SelectRightTab ELSE SelectLeftTab

\* The step runs _tab_close: from the prompt, or from tab-close on a tab that
\* exists and needs no confirmation.
ClosingStep ==
    \/ cmd' = "_tab_close"
    \/ /\ cmd' = "tab_close"
       /\ ret'.tab # None
       /\ args'.force \/ ~TabById(args'.w, Val(ret'.tab)).pinned

\* C7: _get_selection_override returns no override without a flag, select-left
\* for prev alone, select-right for next alone, the inverse of the configured
\* default for opposite alone, and signals an error, the tab staying open,
\* for opposite with the default 'last-used' and for more than one flag.
C7_SelectionOverride ==
    [][ClosingStep =>
        LET a == args' IN
        /\ FlagCount(a) > 1 =>
                err' = ErrExclusive("-p/-n/-o") /\ windows' = windows /\ calls' = <<>>
        /\ FlagCount(a) = 0 => err' = NoError /\ ret'.override = None
        /\ (FlagCount(a) = 1 /\ a.prev) =>
                err' = NoError /\ ret'.override = Some(SelectLeftTab)
        /\ (FlagCount(a) = 1 /\ a.next_) =>
                err' = NoError /\ ret'.override = Some(SelectRightTab)
        /\ (FlagCount(a) = 1 /\ a.opposite /\ config.select_on_remove # SelectPreviousTab) =>
                err' = NoError /\ ret'.override = Some(Inverse(config.select_on_remove))
        /\ (FlagCount(a) = 1 /\ a.opposite /\ config.select_on_remove = SelectPreviousTab) =>
                err' = ErrLastUsed /\ windows' = windows /\ calls' = <<>>
        /\ err' = NoError =>
                /\ calls' = <<Call("close_tab", Val(ret'.tab),
                                   IF ret'.override = None
                                   THEN windows[a.w].selection_behavior
                                   ELSE Val(ret'.override))>>
                /\ Val(ret'.tab) \notin AllTabIds(windows')]_vars

\* tab-close --opposite ran on an existing tab with 'last-used' configured.
C7_Witness ==
    /\ cmd = "tab_close"
    /\ args.opposite /\ ~args.prev /\ ~args.next_
    /\ config.select_on_remove = SelectPreviousTab
    /\ ret.tab # None
    /\ err = ErrLastUsed

----------------------------------------------------------------------------
(* Properties of switching and moving tabs *)

\* The tabs of after are those of before with the tab at index from moved to
\* index to, the others keeping their order.
MovedTo(before, after, from, to) ==
    /\ Len(after) = Len(before)
    /\ after[to + 1] = before[from + 1]
    /\ RemoveAt(after, to + 1) = RemoveAt(before, from + 1)

Relative(index) == index.kind \in {"+", "-"}

\* The position a relative tab-move asks for, before any wrapping.
RelativeTarget(cur, a) ==
    LET delta == IF a.count = None THEN 1 ELSE Val(a.count) IN
    IF a.index.kind = "-" THEN cur - delta ELSE cur + delta

\* C2: with tabs.wrap and at least one tab, for every count >= 1, tab-next
\* makes (current + count) mod tab_count current, tab-prev makes
\* (current - count) mod tab_count current, and tab-move +/- moves the current
\* tab to (current +/- delta) mod tab_count; the index stays in [0, tab_count).
C2_Wraparound ==
    [][(cmd' \in {"tab_next", "tab_prev", "tab_move"} /\ config.wrap
            /\ Len(windows[args'.w].tabs) >= 1) =>
        LET a == args'
            win == windows[a.w]
            after == windows'[a.w]
            n == Len(win.tabs)
        IN /\ (cmd' = "tab_next" /\ a.count >= 1) =>
                /\ err' = NoError
                /\ after = [win EXCEPT !.cur = (win.cur + a.count) % n]
           /\ (cmd' = "tab_prev" /\ a.count >= 1) =>
                /\ err' = NoError
                /\ after = [win EXCEPT !.cur = (win.cur - a.count) % n]
           /\ (cmd' = "tab_move" /\ Relative(a.index)
                    /\ (a.count = None \/ Val(a.count) >= 1)) =>
                /\ err' = NoError
                /\ after.cur = RelativeTarget(win.cur, a) % n
                /\ MovedTo(win.tabs, after.tabs, win.cur, after.cur)
           /\ 0 <= after.cur /\ after.cur < n]_vars

\* tab-next ran with a count that leads past the last of three tabs.
C2_Witness ==
    /\ cmd = "tab_next"
    /\ config.wrap
    /\ Len(windows[args.w].tabs) = 3
    /\ args.count = 2
    /\ windows[args.w].cur = 0
    /\ err = NoError

\* C3: without tabs.wrap, tab-next past the last tab and tab-prev past the
\* first leave the current index and the tab order as they are and raise
\* nothing; a target inside the sequence becomes current exactly.
C3_NoWrap ==
    [][(cmd' \in {"tab_next", "tab_prev"} /\ ~config.wrap) =>
        LET a == args'
            win == windows[a.w]
            n == Len(win.tabs)
            target == IF cmd' = "tab_next" THEN win.cur + a.count ELSE win.cur - a.count
        IN /\ (cmd' = "tab_next" /\ target >= n) =>
                windows' = windows /\ err' = NoError
           /\ (cmd' = "tab_prev" /\ target < 0) =>
                windows' = windows /\ err' = NoError
           /\ (0 <= target /\ target < n) =>
                /\ err' = NoError
                /\ windows' = [windows EXCEPT ![a.w].cur = target]]_vars

\* tab-prev ran past the first tab of a window with tabs.
C3_Witness ==
    /\ cmd = "tab_prev"
    /\ ~config.wrap
    /\ Len(windows[args.w].tabs) >= 2
    /\ args.count > windows[args.w].cur
    /\ msgs = <<"debug: First tab">>

\* A relative tab-move without tabs.wrap whose target is outside the sequence.
MovePastEnd ==
    /\ cmd' = "tab_move"
    /\ ~config.wrap
    /\ Relative(args'.index)
    /\ LET win == windows[args'.w]
           target == RelativeTarget(win.cur, args')
       IN target < 0 \/ target >= Len(win.tabs)

\* C4 as stated, in a window that has tabs: such a tab-move clamps or does
\* nothing, raises no error and leaves the tab order unchanged.
C4_AsStated ==
    [][(MovePastEnd /\ Len(windows[args'.w].tabs) >= 1) =>
        /\ err' = NoError
        /\ windows'[args'.w].tabs = windows[args'.w].tabs]_vars

\* C4 as the code has it: such a tab-move raises "Can't move tab to
\* position", calls no moveTab and leaves the window unchanged.
C4_MoveError ==
    [][MovePastEnd =>
        /\ err' = ErrCantMove
        /\ calls' = <<>>
        /\ windows' = windows]_vars

\* tab-move + ran on the last of several tabs without tabs.wrap.
C4_Witness ==
    /\ cmd = "tab_move"
    /\ ~config.wrap
    /\ args.index = Plus
    /\ args.count = None
    /\ Len(windows[args.w].tabs) >= 2
    /\ windows[args.w].cur = Len(windows[args.w].tabs) - 1
    /\ err = ErrCantMove

----------------------------------------------------------------------------
(* Parsing the URL argument *)

MsgInvalidUrl == "error: Invalid URL"

\* _parse_url: [call, parsed, msgs]; parsed is None when nothing resolves.
_parse_url_no_quickmark(url, force_search) ==
    LET call == [op |-> "_parse_url", url |-> url, force_search |-> force_search]
        fuzzy == fuzzy_url(url, force_search)
    IN IF fuzzy.err = NoError
       THEN [call |-> call, how |-> "fuzzy_url", parsed |-> Some(fuzzy.url), msgs |-> <<>>]
       ELSE [call |-> call, how |-> "fuzzy_url", parsed |-> None,
             msgs |-> <<MsgInvalidUrl>>]

_parse_url(url, force_search) ==
    LET call == [op |-> "_parse_url", url |-> url, force_search |-> force_search]
        mark == quickmark_get(url)
        fuzzy == fuzzy_url(url, force_search)
    IN IF mark.err = NoError
       THEN [call |-> call, how |-> "quickmark", parsed |-> Some(mark.url), msgs |-> <<>>]
       ELSE IF fuzzy.err = NoError
       THEN [call |-> call, how |-> "fuzzy_url", parsed |-> Some(fuzzy.url), msgs |-> <<>>]
       ELSE [call |-> call, how |-> "fuzzy_url", parsed |-> None,
             msgs |-> <<MsgInvalidUrl>>]

\* A URL argument: a QUrl object, or a string still to be parsed.
QUrlInput(url) == [qurl |-> TRUE, text |-> url]
StrInput(text) == [qurl |-> FALSE, text |-> text]

\* The list comprehension [u for u in url.split('\n') if u.strip()]
NonBlank(lines) == SelectSeq(lines, LAMBDA u : strip(u) # <<>>)

RECURSIVE _parse_each(_, _)
_parse_each(urllist, force_search) ==
    IF urllist = <<>> THEN <<>>
    ELSE <<_parse_url(Head(urllist), force_search)>>
         \o _parse_each(Tail(urllist), force_search)

\* _parse_url_input: the _parse_url steps the generator makes, in order.
_parse_url_input_split_always(url) ==
    IF url.qurl
    THEN <<[call |-> [op |-> "yield", url |-> url.text, force_search |-> FALSE],
           how |-> "QUrl", parsed |-> Some(url.text), msgs |-> <<>>]>>
    ELSE _parse_each(NonBlank(split(url.text)), FALSE)

_parse_url_input(url) ==
    IF url.qurl
    THEN <<[call |-> [op |-> "yield", url |-> url.text, force_search |-> FALSE],
           how |-> "QUrl", parsed |-> Some(url.text), msgs |-> <<>>]>>
    ELSE LET urllist == NonBlank(split(url.text)) IN
         IF /\ Len(urllist) > 1
            /\ ~is_url(urllist[1])
            /\ get_path_if_valid(urllist[1]) = None
         THEN _parse_each(<<url.text>>, TRUE)
         ELSE _parse_each(urllist, FALSE)

\* What the generator yields: the parsed URLs, unresolved lines left out.
RECURSIVE Yielded(_)
Yielded(steps) ==
    IF steps = <<>> THEN <<>>
    ELSE (IF Head(steps).parsed = None THEN <<>> ELSE <<Val(Head(steps).parsed)>>)
         \o Yielded(Tail(steps))

RECURSIVE Flatten(_)
Flatten(seqs) == IF seqs = <<>> THEN <<>> ELSE Head(seqs) \o Flatten(Tail(seqs))

StepMsgs(steps) == Flatten([i \in DOMAIN steps |-> steps[i].msgs])

\* The generator run to its end on one input.
parse_url_input(url) ==
    LET steps == _parse_url_input(url) IN
    /\ cmd = Idle
    /\ args = url
    /\ UNCHANGED <<windows, config, prompt, args>>
    /\ cmd' = "_parse_url_input"
    /\ err' = NoError
    /\ ret' = Yielded(steps)
    /\ calls' = steps
    /\ msgs' = StepMsgs(steps)

----------------------------------------------------------------------------
(* Specification: _parse_url_input on every URL argument up to MaxLen *)

Inputs == {QUrlInput(<<"u">>)} \cup {StrInput(t) : t \in Texts(Chars, MaxLen)}

InitParse ==
    /\ config \in {c \in Configs : c.wrap /\ c.select_on_remove = SelectRightTab}
    /\ windows = [w \in {0} |-> NewWindow(FALSE, config.select_on_remove)]
    /\ prompt = None
    /\ cmd = Idle
    /\ args \in Inputs
    /\ err = NoError
    /\ ret = None
    /\ calls = <<>>
    /\ msgs = <<>>

NextParse == parse_url_input(args)

SpecParse == InitParse /\ [][NextParse]_vars

----------------------------------------------------------------------------
(* Properties of URL input parsing *)

RECURSIVE Join(_)
Join(lines) ==
    IF Len(lines) = 1 THEN Head(lines)
    ELSE Head(lines) \o <<Newline>> \o Join(Tail(lines))

IsBlank(line) == \A i \in DOMAIN line : line[i] \in Whitespace

\* The lines of a text: the pieces between its newlines, in order.
IsLinesOf(lines, text) ==
    /\ Len(lines) >= 1
    /\ Join(lines) = text
    /\ \A i \in DOMAIN lines : \A j \in DOMAIN lines[i] : lines[i][j] # Newline

\* The calls of _parse_url made for an input are those for the texts given,
\* in order, with the given force_search.
ParsedAs(steps, texts, force_search) ==
    /\ Len(steps) = Len(texts)
    /\ \A i \in DOMAIN steps :
            steps[i].call = [op |-> "_parse_url", url |-> texts[i],
                             force_search |-> force_search]

ParsedString == cmd = "_parse_url_input" /\ ~args.qurl

\* C8: a string with more than one non-blank line whose first non-blank line
\* is neither a URL nor an existing path is parsed as one forced search for
\* the whole input; any other string is parsed line by line, each non-blank
\* line once, in input order, blank lines dropped.
C8_MultiLineSearch ==
    ParsedString =>
        LET lines == split(args.text)
            urllist == SelectSeq(lines, LAMBDA u : ~IsBlank(u))
        IN /\ IsLinesOf(lines, args.text)
           /\ IF /\ Len(urllist) > 1
                 /\ ~is_url(urllist[1])
                 /\ get_path_if_valid(urllist[1]) = None
              THEN ParsedAs(calls, <<args.text>>, TRUE)
              ELSE ParsedAs(calls, urllist, FALSE)
           /\ ret = Yielded(calls)

\* "s\ns\ns" was parsed: three search terms, one forced search.
C8_Witness ==
    /\ ParsedString
    /\ args.text = <<"s", Newline, "s", Newline, "s">>
    /\ Len(calls) = 1
    /\ calls[1].call.force_search
    /\ ret = <<<<"?", "s", Newline, "s", Newline, "s">>>>

Unresolved(steps) == {i \in DOMAIN steps : steps[i].parsed = None}

\* C9: every line handed to _parse_url is looked up as a quickmark first and
\* goes to fuzzy_url only if that fails; a line neither resolves gives one
\* error message and no URL, and the lines after it are still parsed and
\* yielded in order; no error is raised.
C9_QuickmarkThenFuzzy ==
    ParsedString =>
        /\ err = NoError
        /\ \A i \in DOMAIN calls :
            LET c == calls[i].call
                fuzzy == fuzzy_url(c.url, c.force_search)
            IN IF c.url \in DOMAIN Quickmarks
               THEN /\ calls[i].how = "quickmark"
                    /\ calls[i].parsed = Some(Quickmarks[c.url])
                    /\ calls[i].msgs = <<>>
               ELSE /\ calls[i].how = "fuzzy_url"
                    /\ fuzzy.err = NoError =>
                            calls[i].parsed = Some(fuzzy.url) /\ calls[i].msgs = <<>>
                    /\ fuzzy.err # NoError =>
                            calls[i].parsed = None /\ calls[i].msgs = <<MsgInvalidUrl>>
        /\ Len(msgs) = Cardinality(Unresolved(calls))
        /\ Len(ret) = Len(calls) - Cardinality(Unresolved(calls))
        /\ ret = Yielded(calls)
        /\ \/ Len(calls) = Len(SelectSeq(split(args.text), LAMBDA u : ~IsBlank(u)))
           \/ Len(calls) = 1 /\ calls[1].call.force_search

\* "u\n!\nq" was parsed: the second line resolves to nothing, the third is a
\* quickmark and is still yielded.
C9_Witness ==
    /\ ParsedString
    /\ args.text = <<"u", Newline, "!", Newline, "q">>
    /\ ret = <<<<"u">>, <<"u", "q">>>>
    /\ msgs = <<MsgInvalidUrl>>

----------------------------------------------------------------------------
(* Opening URLs *)

IsTrue(o) == o = Some(TRUE)

\* self._new_tabbed_browser(private): the registry with a new window, whose
\* id is the next one.
NewWindowId(ws) == Cardinality(DOMAIN ws)

_new_tabbed_browser(ws, private) ==
    [w \in DOMAIN ws \cup {NewWindowId(ws)} |->
        IF w \in DOMAIN ws THEN ws[w] ELSE NewWindow(private, config.select_on_remove)]

\* QUrl.setScheme('https')
setScheme(url) == <<"h">> \o url

\* _open for the dispatcher of window w on the registry ws: [windows, err,
\* calls].  private is None, <<TRUE>> or <<FALSE>>.
_open_unchecked(ws, w, url, tab, background, window, related, private) ==
    LET private2 == IF window /\ private = None THEN Some(ws[w].private) ELSE private
        id == NewTabId(ws)
    IN
    IF ~isValid(url) THEN [windows |-> ws, err |-> ErrInvalidUrl, calls |-> <<>>]
    ELSE IF window \/ IsTrue(private2)
    THEN LET new == NewWindowId(ws)
             ws2 == _new_tabbed_browser(ws, IsTrue(private2))
         IN [windows |-> [ws2 EXCEPT ![new] = tabopen(@, id, url, FALSE, TRUE)],
             err |-> NoError,
             calls |-> <<Call("MainWindow", new, IF IsTrue(private2) THEN "private" ELSE ""),
                         Call("tabopen", id, url)>>]
    ELSE IF tab
    THEN [windows |-> [ws EXCEPT ![w] = tabopen(@, id, url, FALSE, related)],
          err |-> NoError, calls |-> <<Call("tabopen", id, url)>>]
    ELSE IF background
    THEN [windows |-> [ws EXCEPT ![w] = tabopen(@, id, url, TRUE, related)],
          err |-> NoError, calls |-> <<Call("tabopen", id, url)>>]
    ELSE IF TabAtIndex(ws[w], ws[w].cur) = None
    THEN [windows |-> ws, err |-> ErrNoWebView, calls |-> <<>>]
    ELSE [windows |-> [ws EXCEPT ![w].tabs[ws[w].cur + 1].url = url],
          err |-> NoError,
          calls |-> <<Call("openurl", Val(TabAtIndex(ws[w], ws[w].cur)), url)>>]

_open(ws, w, url, tab, background, window, related, private) ==
    LET private2 == IF window /\ private = None THEN Some(ws[w].private) ELSE private
        id == NewTabId(ws)
        exclusive == check_exclusive(<<tab, background, window, IsTrue(private)>>,
                                     "-t/-b/-w/-p")
    IN
    IF ~isValid(url) THEN [windows |-> ws, err |-> ErrInvalidUrl, calls |-> <<>>]
    ELSE IF exclusive # NoError THEN [windows |-> ws, err |-> exclusive, calls |-> <<>>]
    ELSE IF window \/ IsTrue(private2)
    THEN LET new == NewWindowId(ws)
             ws2 == _new_tabbed_browser(ws, IsTrue(private2))
         IN [windows |-> [ws2 EXCEPT ![new] = tabopen(@, id, url, FALSE, TRUE)],
             err |-> NoError,
             calls |-> <<Call("MainWindow", new, IF IsTrue(private2) THEN "private" ELSE ""),
                         Call("tabopen", id, url)>>]
    ELSE IF tab
    THEN [windows |-> [ws EXCEPT ![w] = tabopen(@, id, url, FALSE, related)],
          err |-> NoError, calls |-> <<Call("tabopen", id, url)>>]
    ELSE IF background
    THEN [windows |-> [ws EXCEPT ![w] = tabopen(@, id, url, TRUE, related)],
          err |-> NoError, calls |-> <<Call("tabopen", id, url)>>]
    ELSE IF TabAtIndex(ws[w], ws[w].cur) = None
    THEN [windows |-> ws, err |-> ErrNoWebView, calls |-> <<>>]
    ELSE [windows |-> [ws EXCEPT ![w].tabs[ws[w].cur + 1].url = url],
          err |-> NoError,
          calls |-> <<Call("openurl", Val(TabAtIndex(ws[w], ws[w].cur)), url)>>]

\* A helper command (quickmark-load, tab-take, navigate, ...) calls _open.
open_helper(w, url, tab, background, window, related, private) ==
    LET o == _open(windows, w, url, tab, background, window, related, private) IN
    /\ Dispatch
    /\ UNCHANGED <<config, prompt>>
    /\ windows' = o.windows
    /\ Outcome("_open",
               [w |-> w, url |-> url, tab |-> tab, background |-> background,
                window |-> window, related |-> related, private |-> private],
               o.err, None, o.calls, <<>>)

\* url.default_page
default_page == <<"u", "d">>

MsgPinned == "info: Tab is pinned!"

\* The body of openurl's loop for the URL cur_url when no destination flag is
\* set: [windows, err, calls, msgs, return].  It runs for the first URL only,
\* so the registry is still the one the command started with.
_open_in_count_tab(w, cur_url, count) ==
    LET curtab == _cntwidget(w, count) IN
    IF curtab.tab = None
    THEN IF count = None
         THEN [windows |-> [windows EXCEPT
                                ![w] = tabopen(@, NewTabId(windows), cur_url, FALSE, TRUE)],
               err |-> NoError,
               calls |-> <<Call("tabopen", NewTabId(windows), cur_url)>>,
               msgs |-> <<>>, return |-> FALSE]
         ELSE [windows |-> windows, err |-> NoError, calls |-> <<>>, msgs |-> <<>>,
               return |-> TRUE]
    ELSE IF TabById(w, Val(curtab.tab)).pinned
    THEN [windows |-> windows, err |-> NoError, calls |-> <<>>, msgs |-> <<MsgPinned>>,
          return |-> FALSE]
    ELSE [windows |-> [windows EXCEPT
                            ![w].tabs[indexOf(windows[w].tabs, Val(curtab.tab)) + 1].url
                                = cur_url],
          err |-> NoError,
          calls |-> <<Call("openurl", Val(curtab.tab), cur_url)>>,
          msgs |-> <<>>, return |-> FALSE]

\* openurl's loop over the generator _parse_url_input: st is [windows, err,
\* calls, msgs], steps what the generator still has to do, i the number of
\* URLs it has yielded, tab and bg the flags as the loop has left them.
RECURSIVE openurl_loop(_, _, _, _, _, _)
openurl_loop(st, steps, i, tab, bg, p) ==
    IF steps = <<>> THEN st
    ELSE LET step == Head(steps)
             st1 == [st EXCEPT !.msgs = @ \o step.msgs]
         IN
         IF step.parsed = None THEN openurl_loop(st1, Tail(steps), i, tab, bg, p)
         ELSE LET cur_url == IF p.secure THEN setScheme(Val(step.parsed))
                             ELSE Val(step.parsed)
                  tab2 == IF ~p.window /\ i > 0 THEN FALSE ELSE tab
                  bg2 == IF ~p.window /\ i > 0 THEN TRUE ELSE bg
              IN
              IF tab2 \/ bg2 \/ p.window \/ p.private
              THEN LET o == _open(st1.windows, p.w, cur_url, tab2, bg2, p.window,
                                  p.related, Some(p.private))
                   IN IF o.err # NoError THEN [st1 EXCEPT !.err = o.err]
                      ELSE openurl_loop([st1 EXCEPT !.windows = o.windows,
                                                    !.calls = @ \o o.calls],
                                        Tail(steps), i + 1, tab2, bg2, p)
              ELSE LET o == _open_in_count_tab(p.w, cur_url, p.count) IN
                   IF o.return THEN st1
                   ELSE openurl_loop([st1 EXCEPT !.windows = o.windows,
                                                 !.calls = @ \o o.calls,
                                                 !.msgs = @ \o o.msgs],
                                     Tail(steps), i + 1, tab2, bg2, p)

\* open: url is None or <<input>>.
openurl(w, url, related, bg, tab, window, count, secure, private) ==
    LET p == [w |-> w, url |-> url, related |-> related, bg |-> bg, tab |-> tab,
              window |-> window, count |-> count, secure |-> secure,
              private |-> private]
        urls == IF url = None THEN _parse_url_input(QUrlInput(default_page))
                ELSE _parse_url_input(Val(url))
        o == openurl_loop([windows |-> windows, err |-> NoError, calls |-> <<>>,
                           msgs |-> <<>>], urls, 0, tab, bg, p)
    IN
    /\ Dispatch
    /\ UNCHANGED <<config, prompt>>
    /\ windows' = o.windows
    /\ Outcome("open", p, o.err, None, o.calls, o.msgs)

----------------------------------------------------------------------------
(* Specification: one open, or one call of _open, from a window that has    *)
(* up to MaxOpenTabs tabs                                                    *)

\* The containers a window can be in: any number of tabs, any of them
\* pinned, any of them current.
Containers(n) ==
    UNION {{[NewWindow(private, SelectRightTab) EXCEPT
                !.tabs = [i \in 1 .. k |-> [NewTab(i, AboutBlank) EXCEPT
                                                !.pinned = pinned[i]]],
                !.cur = cur] :
                pinned \in [1 .. k -> BOOLEAN],
                cur \in (IF k = 0 THEN {0 - 1} ELSE 0 .. (k - 1)),
                private \in BOOLEAN} : k \in 0 .. n}

OpenInputs == {None} \cup {Some(StrInput(t)) : t \in Texts({"u", "!", Newline}, MaxOpenLen)}

OpenCounts == {None} \cup {Some(c) : c \in 0 .. (MaxOpenTabs + 1)}

InitOpen ==
    /\ config \in {c \in Configs : c.wrap /\ c.select_on_remove = SelectRightTab}
    /\ windows \in {[w \in {0} |-> c] : c \in Containers(MaxOpenTabs)}
    /\ InitOutcome

open_helper_call ==
    /\ Dispatch
    /\ \E w \in DOMAIN windows, url \in {<<"u">>, <<"!">>},
          tab, background, window, related \in BOOLEAN,
          private \in {None, Some(FALSE), Some(TRUE)} :
            open_helper(w, url, tab, background, window, related, private)

openurl_call ==
    /\ Dispatch
    /\ \E w \in DOMAIN windows, url \in OpenInputs,
          related, bg, tab, window, secure, private \in BOOLEAN,
          count \in OpenCounts :
            openurl(w, url, related, bg, tab, window, count, secure, private)

NextOpen == open_helper_call \/ openurl_call

SpecOpen == InitOpen /\ [][NextOpen]_vars

----------------------------------------------------------------------------
(* Properties of opening URLs *)

ErrDestination == ErrExclusive("-t/-b/-w/-p")

\* The destination flags that are set in the arguments a.
DestinationFlags(a) ==
    Cardinality(Truthy(<<a.tab, a.background, a.window, IsTrue(a.private)>>))

\* C5: a call of _open with two or more of tab, background, window and
\* private set is rejected with an error before any toolkit call: the
\* windows are left as they were (no new window, no new tab, no URL
\* replaced) and, when the URL is a valid one, the error is the one naming
\* the flags -t/-b/-w/-p.
C5_OpenExclusive ==
    [][(cmd = Idle /\ cmd' = "_open" /\ DestinationFlags(args') >= 2)
         => /\ err' # NoError
            /\ isValid(args'.url) => err' = ErrDestination
            /\ windows' = windows
            /\ calls' = <<>>]_vars

C5_Witness ==
    /\ cmd = "_open"
    /\ DestinationFlags(args) >= 2
    /\ isValid(args.url)
    /\ err = ErrDestination
    /\ Len(windows[0].tabs) > 0

\* C6: an open that ends with the error about the destination flags has
\* opened nothing: the windows are as they were before it and it made no
\* toolkit call.
C6_OpenNothingOnError ==
    [][(cmd = Idle /\ cmd' = "open" /\ err' = ErrDestination)
         => /\ windows' = windows
            /\ calls' = <<>>]_vars

----------------------------------------------------------------------------
(* Searching the page *)

ErrNoSearch == "No search done yet."

MsgHitBottom == "info: Search hit BOTTOM, continuing at TOP"
MsgHitTop == "info: Search hit TOP, continuing at BOTTOM"
MsgNotFound == "warning: Text not found on page!"

\* What the callback of a search sees: the text was not found, or it was
\* found and the vertical scroll position is now smaller than, the same as,
\* or larger than before the search.
SearchResults == {"missing", "smaller", "same", "larger"}

going_up(options, prev) == options.reverse # prev

_search_cb(result, options, prev) ==
    IF result = "missing" THEN <<MsgNotFound>>
    ELSE IF ~going_up(options, prev) /\ result = "smaller" THEN <<MsgHitBottom>>
    ELSE IF going_up(options, prev) /\ result = "larger" THEN <<MsgHitTop>>
    ELSE <<>>

\* The direction the tab's own search moves in: next_result follows the flags
\* of the tab's last search(), prev_result goes against them.
Direction(reverse, prev) == IF reverse # prev THEN "up" ELSE "down"

\* CommandDispatcher.set_mark(key) hands the key to the tabbed browser.
set_mark(key) == Call("set_mark", None, key)

\* TabbedBrowser.set_mark("'"): the mark of the current tab's page becomes its
\* scroll position.
mark_current(win) ==
    IF TabAtIndex(win, win.cur) = None THEN win
    ELSE [win EXCEPT !.tabs[win.cur + 1].mark = Some(win.tabs[win.cur + 1].pos)]

Repeat(c, n) == [i \in 1 .. n |-> c]

\* search on the container win: [win, err, calls, msgs]
\* The stored options are the dict that is later given the callback.
dict_alias(options) == options @@ [result_cb |-> "_search_cb"]

\* dict(options): a copy, taken before result_cb is put into options
dict(options) == options

search_outcome(win0, text, reverse, result) ==
    LET win == mark_current(win0)
        tab == TabAtIndex(win, win.cur)
        options == [ignore_case |-> config.ignore_case, reverse |-> reverse]
    IN
    IF tab = None
    THEN [win |-> win, err |-> ErrNoWebView, calls |-> <<set_mark("'")>>, msgs |-> <<>>]
    ELSE IF text = ""
    THEN IF win.tabs[win.cur + 1].search_displayed
         THEN [win |-> [win EXCEPT !.tabs[win.cur + 1].search_displayed = FALSE],
               err |-> NoError,
               calls |-> <<set_mark("'"), Call("search.clear", Val(tab), "")>>,
               msgs |-> <<>>]
         ELSE [win |-> win, err |-> NoError, calls |-> <<set_mark("'")>>, msgs |-> <<>>]
    ELSE [win |-> [win EXCEPT !.search_text = Some(text),
                              !.search_options = Some(dict(options)),
                              !.tabs[win.cur + 1].search_text = Some(text),
                              !.tabs[win.cur + 1].search_reverse = reverse,
                              !.tabs[win.cur + 1].search_displayed = TRUE],
          err |-> NoError,
          calls |-> <<set_mark("'"),
                      Call("search.search", Val(tab), [text |-> text, reverse |-> reverse])>>,
          msgs |-> _search_cb(result, options, FALSE)]

search(w, text, reverse, result) ==
    LET o == search_outcome(windows[w], text, reverse, result) IN
    /\ Dispatch
    /\ UNCHANGED config
    /\ SetWindow(w, o.win)
    /\ Outcome("search", [w |-> w, text |-> text, reverse |-> reverse],
               o.err, None, o.calls, o.msgs)

search_resume_no_step(win0, tab, count, prev, result) ==
    LET win == mark_current(win0)
        window_text == win.search_text
        restart == window_text # None /\ window_text # win.tabs[win.cur + 1].search_text
        count1 == count
        win1 == IF restart
                THEN [win EXCEPT !.tabs[win.cur + 1].search_text = window_text,
                                 !.tabs[win.cur + 1].search_reverse =
                                     Val(win.search_options).reverse,
                                 !.tabs[win.cur + 1].search_displayed = TRUE]
                ELSE win
        flags == win1.tabs[win.cur + 1].search_reverse
        step == Call(IF prev THEN "search.prev_result" ELSE "search.next_result", tab,
                     Direction(flags, prev))
        steps == (IF count1 - 1 > 0 THEN count1 - 1 ELSE 0) + 1
    IN
    [win |-> win1,
     err |-> NoError,
     calls |-> <<set_mark("'")>>
               \o (IF restart
                   THEN <<Call("search.clear", tab, ""),
                          Call("search.search", tab,
                               [text |-> Val(window_text), reverse |-> flags])>>
                   ELSE <<>>)
               \o (IF count1 = 0 THEN <<>> ELSE Repeat(step, steps)),
     msgs |-> IF count1 = 0 \/ win.search_options = None THEN <<>>
              ELSE _search_cb(result, Val(win.search_options), prev)]

\* search_next and search_prev from the line that sets the mark on: the
\* current tab takes over the window's search if its own is another one, and
\* then steps count results on (prev: back).
search_resume(win0, tab, count, prev, result) ==
    LET win == mark_current(win0)
        window_text == win.search_text
        restart == window_text # None /\ window_text # win.tabs[win.cur + 1].search_text
        count1 == IF restart THEN count - 1 ELSE count
        win1 == IF restart
                THEN [win EXCEPT !.tabs[win.cur + 1].search_text = window_text,
                                 !.tabs[win.cur + 1].search_reverse =
                                     Val(win.search_options).reverse,
                                 !.tabs[win.cur + 1].search_displayed = TRUE]
                ELSE win
        flags == win1.tabs[win.cur + 1].search_reverse
        step == Call(IF prev THEN "search.prev_result" ELSE "search.next_result", tab,
                     Direction(flags, prev))
        steps == (IF count1 - 1 > 0 THEN count1 - 1 ELSE 0) + 1
    IN
    [win |-> win1,
     err |-> NoError,
     calls |-> <<set_mark("'")>>
               \o (IF restart
                   THEN <<Call("search.clear", tab, ""),
                          Call("search.search", tab,
                               [text |-> Val(window_text), reverse |-> flags])>>
                   ELSE <<>>)
               \o (IF count1 = 0 THEN <<>> ELSE Repeat(step, steps)),
     msgs |-> IF count1 = 0 \/ win.search_options = None THEN <<>>
              ELSE _search_cb(result, Val(win.search_options), prev)]

search_continue_unchecked(win, count, prev, result) ==
    LET tab == TabAtIndex(win, win.cur) IN
    IF tab = None
    THEN [win |-> win, err |-> ErrNoWebView, calls |-> <<>>, msgs |-> <<>>]
    ELSE search_resume(win, Val(tab), count, prev, result)

\* search_next (prev = FALSE) and search_prev (prev = TRUE) on the container
\* win: [win, err, calls, msgs]
search_continue(win, count, prev, result) ==
    LET tab == TabAtIndex(win, win.cur) IN
    IF tab = None
    THEN [win |-> win, err |-> ErrNoWebView, calls |-> <<>>, msgs |-> <<>>]
    ELSE IF win.search_text = None
    THEN [win |-> win, err |-> ErrNoSearch, calls |-> <<>>, msgs |-> <<>>]
    ELSE search_resume(win, Val(tab), count, prev, result)

search_next(w, count, result) ==
    LET o == search_continue(windows[w], count, FALSE, result) IN
    /\ Dispatch
    /\ UNCHANGED config
    /\ SetWindow(w, o.win)
    /\ Outcome("search_next", [w |-> w, count |-> count, result |-> result],
               o.err, None, o.calls, o.msgs)

search_prev(w, count, result) ==
    LET o == search_continue(windows[w], count, TRUE, result) IN
    /\ Dispatch
    /\ UNCHANGED config
    /\ SetWindow(w, o.win)
    /\ Outcome("search_prev", [w |-> w, count |-> count, result |-> result],
               o.err, None, o.calls, o.msgs)

----------------------------------------------------------------------------
(* Specification: searching in a window of up to MaxTabs tabs *)

MaxSearchCount == 2

SearchTexts == {"", "a", "b"}

SearchCounts == 0 .. MaxSearchCount

InitSearch ==
    /\ config \in {c \in Configs : c.wrap /\ c.select_on_remove = SelectRightTab}
    /\ windows = [w \in {0} |-> NewWindow(FALSE, config.select_on_remove)]
    /\ InitOutcome

NextSearch ==
    \/ Return
    \/ \E w \in DOMAIN windows, background \in BOOLEAN :
            _count(w) < MaxTabs /\ TabOpen(w, background, TRUE)
    \/ \E w \in DOMAIN windows : tab_close(w, FALSE, FALSE, FALSE, FALSE, None)
    \/ \E w \in DOMAIN windows : tab_next(w, 1)
    \/ \E w \in DOMAIN windows, text \in SearchTexts, reverse \in BOOLEAN,
          result \in SearchResults : search(w, text, reverse, result)
    \/ \E w \in DOMAIN windows, count \in SearchCounts, result \in SearchResults :
            search_next(w, count, result)
    \/ \E w \in DOMAIN windows, count \in SearchCounts, result \in SearchResults :
            search_prev(w, count, result)

SpecSearch == InitSearch /\ [][NextSearch]_vars

----------------------------------------------------------------------------
(* Properties of searching *)

SearchContinuations == {"search_next", "search_prev"}

\* A step of search_next or search_prev in a window whose stored search text
\* is absent.
ContinuesNoSearch ==
    /\ cmd = Idle
    /\ cmd' \in SearchContinuations
    /\ windows[args'.w].search_text = None

\* C10 as stated: in a window whose stored search text is absent, search_next
\* and search_prev signal "No search done yet." and have no effect.
C10_AsStated ==
    [][ContinuesNoSearch
         => /\ err' = ErrNoSearch
            /\ windows' = windows
            /\ calls' = <<>>]_vars

\* C10: in a window whose stored search text is absent, search_next and
\* search_prev signal "No search done yet." when the window has a current
\* tab and "No WebView available yet!" when it has none; either way they
\* have no effect: no mark is set, the tab's search is neither cleared nor
\* started, and the stored search state and the tabs are unchanged.
C10_NoSearchYet ==
    [][ContinuesNoSearch
         => /\ err' = IF currentWidget(args'.w) = None THEN ErrNoWebView
                      ELSE ErrNoSearch
            /\ windows' = windows
            /\ calls' = <<>>]_vars

C10_Witness ==
    /\ cmd \in SearchContinuations
    /\ err = ErrNoSearch
    /\ windows[args.w].search_text = None
    /\ _count(args.w) = MaxTabs
    /\ calls = <<>>

----------------------------------------------------------------------------
(* Properties of the search direction *)

ResultCalls == {"search.next_result", "search.prev_result"}

\* A step of search_next or search_prev that got past its checks, in a window
\* whose last search stored its options.
Continues ==
    /\ cmd = Idle
    /\ cmd' \in SearchContinuations
    /\ err' = NoError
    /\ windows[args'.w].search_options # None

StoredDirection == 
    Direction(Val(windows[args'.w].search_options).reverse, cmd' = "search_prev")

\* C11: after search(text, reverse=r) every search_next continues and reports
\* in the direction of that search and every search_prev in the opposite one:
\* each result step the tab is asked for goes in the direction that is the
\* exclusive-or of the stored reverse option and the command's prev flag, and
\* the message is "hit BOTTOM" only in the direction down and "hit TOP" only
\* in the direction up.
C11_SearchDirection ==
    [][Continues
         => /\ \A i \in DOMAIN calls' :
                    calls'[i].op \in ResultCalls => calls'[i].arg = StoredDirection
            /\ (\E i \in DOMAIN msgs' : msgs'[i] = MsgHitBottom)
                    => StoredDirection = "down"
            /\ (\E i \in DOMAIN msgs' : msgs'[i] = MsgHitTop)
                    => StoredDirection = "up"]_vars

----------------------------------------------------------------------------
(* Properties of the search continuation *)

ResultCall(c) == IF c = "search_prev" THEN "search.prev_result" ELSE "search.next_result"

CurrentTab(w) == windows[w].tabs[windows[w].cur + 1]

\* The window's stored text differs from the text the current tab searched last.
TextChanged(w) == windows[w].search_text # CurrentTab(w).search_text

\* C12: search_next and search_prev with a count n >= 1, in a window with a
\* stored search and a current tab.  If the stored text differs from the
\* tab's last text, the tab's search is cleared and started again with the
\* stored text and options, and n - 1 result steps follow; if it is the
\* same, exactly n result steps are made.  Either way n search steps.
C12_ContinuationSteps ==
    [][(Continues /\ args'.count >= 1)
         => LET w == args'.w
                n == args'.count
                tab == CurrentTab(w).id
                step == Call(ResultCall(cmd'), tab, calls'[Len(calls')].arg)
            IN IF TextChanged(w)
               THEN calls' = <<set_mark("'"),
                               Call("search.clear", tab, ""),
                               Call("search.search", tab,
                                    [text |-> Val(windows[w].search_text),
                                     reverse |-> Val(windows[w].search_options).reverse])>>
                             \o Repeat(step, n - 1)
               ELSE calls' = <<set_mark("'")>> \o Repeat(step, n)]_vars

C12_Witness ==
    /\ cmd = "search_prev"
    /\ err = NoError
    /\ args.count = MaxSearchCount
    /\ Len(calls) = 2 + MaxSearchCount
    /\ calls[3].op = "search.search"
    /\ calls[Len(calls)].op = "search.prev_result"

----------------------------------------------------------------------------
(* Properties of the absolute tab-move *)

\* A tab-move without '+' or '-' in a window that has tabs.
MovesAbsolute ==
    /\ cmd = Idle
    /\ cmd' = "tab_move"
    /\ ~Relative(args'.index)
    /\ Len(windows[args'.w].tabs) >= 1

\* C13: tab-move with neither index nor count moves the current tab to index
\* 0, whatever the current index, the number of tabs and tabs.wrap are.  With
\* a count the index argument plays no part: the tab moves to index
\* count - 1 when that is a position of the window, and the command fails
\* with "Can't move tab to position" otherwise.
C13_MoveAbsolute ==
    [][MovesAbsolute =>
        LET a == args'
            win == windows[a.w]
            after == windows'[a.w]
            n == Len(win.tabs)
        IN /\ (a.index = NoIndex /\ a.count = None) =>
                /\ err' = NoError
                /\ after.cur = 0
                /\ MovedTo(win.tabs, after.tabs, win.cur, 0)
           /\ (a.count # None /\ 1 <= Val(a.count) /\ Val(a.count) <= n) =>
                /\ err' = NoError
                /\ after.cur = Val(a.count) - 1
                /\ MovedTo(win.tabs, after.tabs, win.cur, Val(a.count) - 1)
           /\ (a.count # None /\ ~(1 <= Val(a.count) /\ Val(a.count) <= n)) =>
                /\ err' = ErrCantMove
                /\ windows' = windows]_vars

\* tab-move ran with index 3 and count 2 on the last of three tabs.
C13_Witness ==
    /\ cmd = "tab_move"
    /\ args.index = IntIndex(3)
    /\ args.count = Some(2)
    /\ Len(windows[args.w].tabs) = 3
    /\ windows[args.w].cur = 1
    /\ windows[args.w].tabs[2].id = 3
    /\ err = NoError

----------------------------------------------------------------------------
(* buffer: selecting a tab by [win_id/]index *)

ErrNoMatch == "No matching tab for"
ErrNoActiveWindow == "No window specified and couldn't find active window!"
ErrNoWindow == "There's no window with id"
ErrNoTabIndex == "There's no tab with index"

\* One part of index.split('/', 1): what int(part) makes of it, a ValueError
\* (NotInt) or an integer.
NotInt == [int |-> FALSE, val |-> 0]
IntPart(i) == [int |-> TRUE, val |-> i]

\* The page of all tabs
tabs_page == <<"u", "t">>

\* _resolve_buffer_index on the registry ws: [err, win_id, idx].  index is
\* the sequence of parts of the index string, match what the completion
\* model finds for the string as a pattern (None, or the parts of the first
\* item's win_id/index), active the id of the active window or None.
_resolve_buffer_index_own_window(ws, w, index, match, active) ==
    LET index_parts == IF \A i \in DOMAIN index : index[i].int THEN index
                       ELSE IF match # None THEN Val(match) ELSE <<>>
        idx == index_parts[Len(index_parts)].val
        win_id == IF Len(index_parts) = 2 THEN index_parts[1].val ELSE w
        r(e) == [err |-> e, win_id |-> win_id, idx |-> idx]
    IN
    IF index_parts = <<>> THEN [err |-> ErrNoMatch, win_id |-> 0, idx |-> 0]
    ELSE IF win_id \notin DOMAIN ws THEN r(ErrNoWindow)
    ELSE IF ~(0 < idx /\ idx <= Len(ws[win_id].tabs)) THEN r(ErrNoTabIndex)
    ELSE r(NoError)

_resolve_buffer_index(ws, w, index, match, active) ==
    LET index_parts == IF \A i \in DOMAIN index : index[i].int THEN index
                       ELSE IF match # None THEN Val(match) ELSE <<>>
        idx == index_parts[Len(index_parts)].val
        win_id == IF Len(index_parts) = 2 THEN index_parts[1].val ELSE Val(active)
        r(e) == [err |-> e, win_id |-> win_id, idx |-> idx]
    IN
    IF index_parts = <<>> THEN [err |-> ErrNoMatch, win_id |-> 0, idx |-> 0]
    ELSE IF Len(index_parts) = 1 /\ active = None
    THEN [err |-> ErrNoActiveWindow, win_id |-> 0, idx |-> idx]
    ELSE IF win_id \notin DOMAIN ws THEN r(ErrNoWindow)
    ELSE IF ~(0 < idx /\ idx <= Len(ws[win_id].tabs)) THEN r(ErrNoTabIndex)
    ELSE r(NoError)

\* buffer: index is None or <<parts>>, count None or <<n>>.
buffer(w, index, count, match, active) ==
    LET a == [w |-> w, index |-> index, count |-> count, match |-> match,
              active |-> active]
        p == [w |-> w, url |-> Some(StrInput(tabs_page)), related |-> FALSE,
              bg |-> FALSE, tab |-> TRUE, window |-> FALSE, count |-> None,
              secure |-> FALSE, private |-> FALSE]
        o == openurl_loop([windows |-> windows, err |-> NoError, calls |-> <<>>,
                           msgs |-> <<>>],
                          _parse_url_input(StrInput(tabs_page)), 0, TRUE, FALSE, p)
        index1 == IF count # None THEN <<IntPart(Val(count))>> ELSE Val(index)
        r == _resolve_buffer_index(windows, w, index1, match, active)
    IN
    /\ Dispatch
    /\ UNCHANGED <<config, prompt>>
    /\ IF count = None /\ index = None
       THEN /\ windows' = o.windows
            /\ Outcome("buffer", a, o.err, None, o.calls, o.msgs)
       ELSE IF r.err # NoError
       THEN /\ UNCHANGED windows
            /\ Outcome("buffer", a, r.err, None, <<>>, <<>>)
       ELSE /\ windows' = [windows EXCEPT ![r.win_id] = setCurrentIndex(@, r.idx - 1)]
            /\ Outcome("buffer", a, NoError, None,
                       <<Call("activateWindow", r.win_id, ""),
                         Call("raise_", r.win_id, ""),
                         Call("setCurrentWidget",
                              windows[r.win_id].tabs[r.idx].id, "")>>,
                       <<>>)

----------------------------------------------------------------------------
(* Specification: one buffer command with two windows of up to              *)
(* MaxBufferTabs tabs each                                                   *)

MaxBufferTabs == 2

\* A window with k tabs whose ids follow base, the one at index cur current.
Window(base, k, cur) ==
    [NewWindow(FALSE, SelectRightTab) EXCEPT
        !.tabs = [i \in 1 .. k |-> NewTab(base + i, AboutBlank)],
        !.cur = cur]

\* The current indexes a window of k tabs can have.
CurrentIndexes(k) == IF k = 0 THEN {0 - 1} ELSE 0 .. (k - 1)

Registries ==
    UNION {{[w \in {0, 1} |-> IF w = 0 THEN Window(0, k0, c0) ELSE Window(k0, k1, c1)] :
                c0 \in CurrentIndexes(k0), c1 \in CurrentIndexes(k1)} :
            k0 \in 0 .. MaxBufferTabs, k1 \in 0 .. MaxBufferTabs}

BufferParts == {NotInt} \cup {IntPart(i) : i \in (0 - 1) .. (MaxBufferTabs + 1)}

BufferIndexes ==
    {None} \cup {Some(<<x>>) : x \in BufferParts}
           \cup {Some(<<x, y>>) : x \in BufferParts, y \in BufferParts}

\* What the completion model can find: nothing, or a tab of a window.
BufferMatches ==
    {None} \cup {Some(<<IntPart(w), IntPart(i)>>) :
                    w \in DOMAIN windows, i \in 1 .. MaxBufferTabs}

InitBuffer ==
    /\ config \in {c \in Configs : c.wrap /\ c.select_on_remove = SelectRightTab}
    /\ windows \in Registries
    /\ InitOutcome

NextBuffer ==
    /\ Dispatch
    /\ \E w \in DOMAIN windows, index \in BufferIndexes,
          count \in {None} \cup {Some(c) : c \in 0 .. (MaxBufferTabs + 1)},
          match \in {m \in BufferMatches :
                        m = None \/ Val(m)[2].val <= Len(windows[Val(m)[1].val].tabs)},
          active \in {None} \cup {Some(v) : v \in DOMAIN windows} :
            buffer(w, index, count, match, active)

SpecBuffer == InitBuffer /\ [][NextBuffer]_vars

----------------------------------------------------------------------------
(* Properties of buffer *)

\* A buffer command with an index string of integers only and no count.
BufferByIndex(parts) ==
    /\ cmd = Idle
    /\ cmd' = "buffer"
    /\ args'.count = None
    /\ args'.index # None
    /\ Len(Val(args'.index)) = parts
    /\ \A i \in DOMAIN Val(args'.index) : Val(args'.index)[i].int

\* What buffer has to do for tab i of window win: nothing if the window is
\* not registered or has no such tab, otherwise make the tab current and
\* activate the window.
Selects(win, i) ==
    IF win \notin DOMAIN windows
    THEN err' = ErrNoWindow /\ windows' = windows /\ calls' = <<>>
    ELSE IF ~(1 <= i /\ i <= Len(windows[win].tabs))
    THEN err' = ErrNoTabIndex /\ windows' = windows /\ calls' = <<>>
    ELSE /\ err' = NoError
         /\ windows' = [windows EXCEPT ![win].cur = i - 1]
         /\ \E k \in DOMAIN calls' : calls'[k] = Call("activateWindow", win, "")
         /\ \E k \in DOMAIN calls' :
                calls'[k] = Call("setCurrentWidget", windows[win].tabs[i].id, "")

\* C14: buffer with an index 'w/i' of two integers fails and changes nothing
\* if window w is not registered or i is not in 1..tab count of w, and
\* otherwise makes tab i of window w current and activates that window; an
\* index of one integer is resolved in the active window.
C14_Buffer ==
    [][/\ BufferByIndex(2)
            => Selects(Val(args'.index)[1].val, Val(args'.index)[2].val)
       /\ (BufferByIndex(1) /\ args'.active # None)
            => Selects(Val(args'.active), Val(args'.index)[1].val)]_vars

\* buffer "1/2" was run from window 0, the active one, and made the second
\* tab of window 1 current.
C14_Witness ==
    /\ cmd = "buffer"
    /\ args.w = 0
    /\ args.active = Some(0)
    /\ args.index = Some(<<IntPart(1), IntPart(2)>>)
    /\ err = NoError
    /\ windows[1].cur = 1
    /\ calls[1] = Call("activateWindow", 1, "")

----------------------------------------------------------------------------
(* navigate *)

ErrCurrentUrl == "Current URL is invalid!"
ErrNavigate == "navigate.Error"

\* self._current_url() on the container win: [err, url]
_current_url(win) ==
    IF TabAtIndex(win, win.cur) = None \/ ~isValid(win.tabs[win.cur + 1].url)
    THEN [err |-> ErrCurrentUrl, url |-> <<>>]
    ELSE [err |-> NoError, url |-> win.tabs[win.cur + 1].url]

Wheres == {"prev", "next", "up", "increment", "decrement"}

\* navigate.path_up and navigate.incdec: the URL they make of url
navigated(url, where) == <<"u", "n">> \o url

\* navigate on the registry ws for the dispatcher of window w: [windows, err,
\* calls].  fails: the handler raises navigate.Error.
navigate_outcome(ws, w, where, tab, bg, window, count, fails) ==
    LET ws1 == [ws EXCEPT ![w] = mark_current(@)]
        exclusive == check_exclusive(<<tab, bg, window>>, "-t/-b/-w")
        cur_widget == TabAtIndex(ws1[w], ws1[w].cur)
        url == _current_url(ws1[w])
        r(e, c) == [windows |-> ws1, err |-> e, calls |-> <<set_mark("'")>> \o c]
    IN
    IF exclusive # NoError THEN r(exclusive, <<>>)
    ELSE IF cur_widget = None THEN r(ErrNoWebView, <<>>)
    ELSE IF url.err # NoError THEN r(url.err, <<>>)
    ELSE IF fails THEN r(ErrNavigate, <<>>)
    ELSE IF where \in {"prev", "next"}
    THEN r(NoError, <<Call("navigate.prevnext", Val(cur_widget), where)>>)
    ELSE LET o == _open(ws1, w, navigated(url.url, where), tab, bg, window, TRUE, None)
         IN [windows |-> o.windows, err |-> o.err,
             calls |-> <<set_mark("'")>> \o o.calls]

navigate(w, where, tab, bg, window, count, fails) ==
    LET o == navigate_outcome(windows, w, where, tab, bg, window, count, fails) IN
    /\ Dispatch
    /\ UNCHANGED <<config, prompt>>
    /\ windows' = o.windows
    /\ Outcome("navigate",
               [w |-> w, where |-> where, tab |-> tab, bg |-> bg, window |-> window,
                count |-> count],
               o.err, None, o.calls, <<>>)

----------------------------------------------------------------------------
(* Specification: one navigate from a window of up to MaxOpenTabs tabs      *)

MaxPos == 1

\* The window before the command: any container, the current tab scrolled
\* anywhere, with any mark or none, showing a valid or an invalid URL.
Scrolled(c) ==
    IF c.cur < 0 THEN {c}
    ELSE {[c EXCEPT !.tabs[c.cur + 1].pos = pos,
                    !.tabs[c.cur + 1].mark = mark,
                    !.tabs[c.cur + 1].url = url] :
            pos \in 0 .. MaxPos,
            mark \in {None} \cup {Some(m) : m \in 0 .. MaxPos},
            url \in {AboutBlank, <<"!">>}}

InitNavigate ==
    /\ config \in {c \in Configs : c.wrap /\ c.select_on_remove = SelectRightTab}
    /\ windows \in {[w \in {0} |-> c] : c \in UNION {Scrolled(c) : c \in Containers(MaxOpenTabs)}}
    /\ InitOutcome

NextNavigate ==
    /\ Dispatch
    /\ \E w \in DOMAIN windows, where \in Wheres, tab, bg, window, fails \in BOOLEAN,
          count \in 1 .. 2 :
            navigate(w, where, tab, bg, window, count, fails)

SpecNavigate == InitNavigate /\ [][NextNavigate]_vars

----------------------------------------------------------------------------
(* Properties of navigate *)

\* C15: navigate with more than one of tab, bg and window set fails before
\* any side effect: the windows, and with them the "'" mark of the current
\* tab, are as they were before the command.
C15_NavigateExclusive ==
    [][(cmd = Idle /\ cmd' = "navigate"
            /\ Cardinality(Truthy(<<args'.tab, args'.bg, args'.window>>)) >= 2)
         => /\ err' = ErrExclusive("-t/-b/-w")
            /\ windows' = windows]_vars

----------------------------------------------------------------------------
(* Properties of tab-close with several selection flags *)

\* C16: tab-close with more than one of prev, next and opposite set fails
\* with the error about the flags before any side effect, whatever the count
\* and whether or not the tab is pinned: no tab is closed, no confirmation
\* is asked for, and the command does not return without an error.  Stated
\* for windows that have tabs.
C16_CloseExclusive ==
    [][(cmd = Idle /\ cmd' = "tab_close" /\ FlagCount(args') >= 2
            /\ _count(args'.w) >= 1)
         => /\ err' = ErrExclusive("-p/-n/-o")
            /\ windows' = windows
            /\ prompt' = None
            /\ calls' = <<>>]_vars

----------------------------------------------------------------------------
(* tab-give *)

ErrSameWindow == "Can't give a tab to the same window"
ErrDetach == "Cannot detach from a window with only one tab"

\* tab-give from window w: the outcomes [windows, err, calls].  win_id is
\* None or <<id>>, count None or <<n>>.
tab_give_outcomes(ws, w, win_id, count) ==
    LET win_id1 == IF count # None THEN Some(Val(count) - 1) ELSE win_id
        new == win_id1 = None
        ws1 == IF new THEN _new_tabbed_browser(ws, ws[w].private) ELSE ws
        target == IF new THEN NewWindowId(ws) ELSE Val(win_id1)
        made == IF new
                THEN <<Call("MainWindow", target, IF ws[w].private THEN "private" ELSE "")>>
                ELSE <<>>
        url == _current_url(ws1[w])
        id == NewTabId(ws1)
        ws2 == [ws1 EXCEPT ![target] = tabopen(@, id, url.url, FALSE, TRUE)]
        cur_widget == TabAtIndex(ws2[w], ws2[w].cur)
    IN
    IF win_id1 = Some(w)
    THEN {[windows |-> ws, err |-> ErrSameWindow, calls |-> <<>>]}
    ELSE IF new /\ Len(ws[w].tabs) < 2
    THEN {[windows |-> ws, err |-> ErrDetach, calls |-> <<>>]}
    ELSE IF ~new /\ target \notin DOMAIN ws
    THEN {[windows |-> ws, err |-> ErrNoWindow, calls |-> <<>>]}
    ELSE IF url.err # NoError
    THEN {[windows |-> ws1, err |-> url.err, calls |-> made]}
    ELSE {[windows |-> [ws2 EXCEPT ![w] = closed], err |-> NoError,
           calls |-> made \o <<Call("tabopen", id, url.url),
                              Call("close_tab", Val(cur_widget), "add_undo=False")>>] :
            closed \in close_tab(ws2[w], Val(cur_widget))}

tab_give(w, win_id, count) ==
    /\ Dispatch
    /\ UNCHANGED <<config, prompt>>
    /\ \E o \in tab_give_outcomes(windows, w, win_id, count) :
            /\ windows' = o.windows
            /\ Outcome("tab_give", [w |-> w, win_id |-> win_id, count |-> count],
                       o.err, None, o.calls, <<>>)

----------------------------------------------------------------------------
(* Specification: one tab-give with two windows of up to MaxBufferTabs tabs *)

\* The current tab of the window shows a valid or an invalid URL.
Loaded(c) ==
    IF c.cur < 0 THEN {c}
    ELSE {[c EXCEPT !.tabs[c.cur + 1].url = url] : url \in {AboutBlank, <<"!">>}}

InitGive ==
    /\ config \in {c \in Configs : c.wrap /\ c.select_on_remove = SelectRightTab}
    /\ windows \in UNION {{[w \in {0, 1} |-> IF w = 0 THEN c0 ELSE c1] :
                                c0 \in Loaded(r[0]), c1 \in Loaded(r[1])} :
                            r \in Registries}
    /\ InitOutcome

NextGive ==
    /\ Dispatch
    /\ \E w \in DOMAIN windows,
          win_id \in {None} \cup {Some(i) : i \in 0 .. 2},
          count \in {None} \cup {Some(c) : c \in 0 .. 3} :
            tab_give(w, win_id, count)

SpecGive == InitGive /\ [][NextGive]_vars

----------------------------------------------------------------------------
(* Properties of tab-give *)

\* C17: whenever tab-give fails, the set of windows and the tabs of every
\* window are as before the command; no new window has been created.
C17_GiveNoPartialEffect ==
    [][(cmd = Idle /\ cmd' = "tab_give" /\ err' # NoError)
         => /\ DOMAIN windows' = DOMAIN windows
            /\ \A w \in DOMAIN windows : windows'[w].tabs = windows[w].tabs]_vars

----------------------------------------------------------------------------
(* tab-focus *)

ErrNoLast == "No last focused tab!"
ErrVanished == "Last focused tab vanished!"

\* The index argument 'last'
Last == [kind |-> "last", val |-> 0]

\* _tab_focus_last on the container win: [err, win, msgs].  last is what the
\* registry holds as the window's last-focused tab: None (KeyError) or <<id>>.
_tab_focus_last(win, last, show_error) ==
    IF last = None
    THEN [err |-> IF show_error THEN ErrNoLast ELSE NoError, win |-> win, msgs |-> <<>>]
    ELSE LET idx == indexOf(win.tabs, Val(last)) IN
         IF idx = 0 - 1 THEN [err |-> ErrVanished, win |-> win, msgs |-> <<>>]
         ELSE _set_current_index(win, idx) @@ [msgs |-> <<>>]

\* tab-focus on the container win: [err, win, msgs]
tab_focus_no_negative(win, index, count, no_last, last) ==
    LET index1 == IF count # None THEN IntIndex(Val(count)) ELSE index IN
    IF index1 = Last THEN _tab_focus_last(win, last, TRUE)
    ELSE IF ~no_last /\ index1.kind = "int" /\ index1.val = win.cur + 1
    THEN _tab_focus_last(win, last, FALSE)
    ELSE IF index1 = NoIndex THEN tab_next_outcome(win, 1)
    ELSE IF 1 <= index1.val /\ index1.val <= Len(win.tabs)
         THEN _set_current_index(win, index1.val - 1) @@ [msgs |-> <<>>]
         ELSE [err |-> ErrNoTabIndex, win |-> win, msgs |-> <<>>]

tab_focus_outcome(win, index, count, no_last, last) ==
    LET index1 == IF count # None THEN IntIndex(Val(count)) ELSE index IN
    IF index1 = Last THEN _tab_focus_last(win, last, TRUE)
    ELSE IF ~no_last /\ index1.kind = "int" /\ index1.val = win.cur + 1
    THEN _tab_focus_last(win, last, FALSE)
    ELSE IF index1 = NoIndex THEN tab_next_outcome(win, 1)
    ELSE LET index2 == IF index1.val < 0 THEN Len(win.tabs) + index1.val + 1
                       ELSE index1.val
         IN IF 1 <= index2 /\ index2 <= Len(win.tabs)
            THEN _set_current_index(win, index2 - 1) @@ [msgs |-> <<>>]
            ELSE [err |-> ErrNoTabIndex, win |-> win, msgs |-> <<>>]

tab_focus(w, index, count, no_last, last) ==
    LET o == tab_focus_outcome(windows[w], index, count, no_last, last) IN
    /\ Dispatch
    /\ UNCHANGED config
    /\ SetWindow(w, o.win)
    /\ Outcome("tab_focus",
               [w |-> w, index |-> index, count |-> count, no_last |-> no_last,
                last |-> last],
               o.err, None, <<>>, o.msgs)

----------------------------------------------------------------------------
(* Specification: one tab-focus in a window of up to MaxNavTabs tabs, the   *)
(* registry holding any tab, a vanished one or none as the last focused     *)

FocusIndexes ==
    {NoIndex, Last} \cup
    {IntIndex(i) : i \in (0 - MaxNavTabs - 1) .. (MaxNavTabs + 1)}

FocusCounts == {None} \cup {Some(c) : c \in 0 .. (MaxNavTabs + 1)}

LastFocused == {None} \cup {Some(id) : id \in 1 .. (MaxNavTabs + 1)}

InitFocus ==
    /\ config \in {c \in Configs : c.select_on_remove = SelectRightTab}
    /\ windows \in {[w \in {0} |-> Window(0, k, cur)] :
                        <<k, cur>> \in {t \in (0 .. MaxNavTabs) \X ((0 - 1) .. MaxNavTabs) :
                                            t[2] \in CurrentIndexes(t[1])}}
    /\ InitOutcome

NextFocus ==
    /\ Dispatch
    /\ \E w \in DOMAIN windows, index \in FocusIndexes, count \in FocusCounts,
          no_last \in BOOLEAN, last \in LastFocused :
            tab_focus(w, index, count, no_last, last)

SpecFocus == InitFocus /\ [][NextFocus]_vars

----------------------------------------------------------------------------
(* Properties of tab-focus *)

\* What focusing the last-focused tab is: an error when there is none (if
\* errors are to be shown) or it is no longer in the window, otherwise that
\* tab becomes current.
FocusesLast(show_error) ==
    LET a == args'
        win == windows[a.w]
    IN IF a.last = None
       THEN err' = (IF show_error THEN ErrNoLast ELSE NoError) /\ windows' = windows
       ELSE IF indexOf(win.tabs, Val(a.last)) = 0 - 1
       THEN err' = ErrVanished /\ windows' = windows
       ELSE /\ err' = NoError
            /\ windows' = [windows EXCEPT ![a.w].cur = indexOf(win.tabs, Val(a.last))]

\* C18: tab-focus last focuses the last-focused tab for every count, absent
\* or given (or fails when there is no such tab or it vanished); it never
\* goes by the count.  Stated for windows that have tabs.
C18_FocusLast ==
    [][(cmd = Idle /\ cmd' = "tab_focus" /\ args'.index = Last
            /\ Len(windows[args'.w].tabs) >= 1)
         => FocusesLast(TRUE)]_vars

\* A tab-focus with an integer index and no count.
FocusByIndex ==
    /\ cmd = Idle
    /\ cmd' = "tab_focus"
    /\ args'.index.kind = "int"
    /\ args'.count = None

\* The 1-based position an index stands for.
Resolved(n, i) == IF i < 0 THEN n + i + 1 ELSE i

\* What focusing position i of the window is: that tab becomes current when
\* i is in 1..tab count, and the command fails, the window unchanged, when
\* it is not.
FocusesPosition(i) ==
    LET a == args'
        win == windows[a.w]
    IN IF 1 <= i /\ i <= Len(win.tabs)
       THEN err' = NoError /\ windows' = [windows EXCEPT ![a.w].cur = i - 1]
       ELSE err' = ErrNoTabIndex /\ windows' = windows

\* tab-focus with neither index nor count does what tab-next with count 1 does.
FocusLikeNext ==
    (cmd = Idle /\ cmd' = "tab_focus" /\ args'.index = NoIndex /\ args'.count = None)
        => LET o == tab_next_outcome(windows[args'.w], 1) IN
           /\ err' = o.err
           /\ windows' = [windows EXCEPT ![args'.w] = o.win]
           /\ msgs' = o.msgs

\* C19 as stated: a negative index counts from the end, a resolved index in
\* 1..tab count makes that tab current, any other fails and changes
\* nothing; without index and count the command is tab-next with count 1.
\* Stated for windows that have tabs.
C19_AsStated ==
    [][/\ (FocusByIndex /\ Len(windows[args'.w].tabs) >= 1)
            => FocusesPosition(Resolved(Len(windows[args'.w].tabs), args'.index.val))
       /\ FocusLikeNext]_vars

\* C19: as stated, except that an index that is the position of the current
\* tab (current index + 1, compared before a negative index is resolved)
\* focuses, unless no_last is set, the last-focused tab instead, doing
\* nothing when there is none.
C19_FocusIndex ==
    [][/\ FocusByIndex
            => IF ~args'.no_last /\ args'.index.val = windows[args'.w].cur + 1
               THEN FocusesLast(FALSE)
               ELSE FocusesPosition(Resolved(Len(windows[args'.w].tabs),
                                             args'.index.val))
       /\ FocusLikeNext]_vars

\* tab-focus -1 ran in a window of MaxNavTabs tabs; the last one is current.
C19_Witness ==
    /\ cmd = "tab_focus"
    /\ args.index = IntIndex(0 - 1)
    /\ args.count = None
    /\ Len(windows[args.w].tabs) = MaxNavTabs
    /\ windows[args.w].cur = MaxNavTabs - 1
    /\ windows[args.w].tabs[1].id = 1
    /\ err = NoError

----------------------------------------------------------------------------
(* Properties of open with several lines *)

\* The calls that open a URL, in the order they were made.
OpenCalls(cl) == SelectSeq(cl, LAMBDA c : c.op \in {"tabopen", "openurl"})

WindowCalls(cl) == SelectSeq(cl, LAMBDA c : c.op = "MainWindow")

\* The URLs the input of an open resolves to, in input order.
ResolvedUrls(a) ==
    LET urls == Yielded(_parse_url_input(Val(a.url))) IN
    [i \in DOMAIN urls |-> IF a.secure THEN setScheme(urls[i]) ELSE urls[i]]

\* The first destination takes a URL: a count names a tab of the window, and
\* the tab to load the URL in is not pinned.
FirstDestinationOpen(a) ==
    (a.tab \/ a.bg \/ a.window \/ a.private)
        \/ LET t == _cntwidget(a.w, a.count) IN
           IF t.tab = None THEN a.count = None
           ELSE ~TabById(a.w, Val(t.tab)).pinned

\* An open with at most one destination flag, whose input has a newline and
\* whose first destination takes a URL.
OpensLines ==
    /\ cmd = Idle
    /\ cmd' = "open"
    /\ Cardinality(Truthy(<<args'.tab, args'.bg, args'.window, args'.private>>)) <= 1
    /\ args'.url # None
    /\ \E i \in DOMAIN Val(args'.url).text : Val(args'.url).text[i] = Newline
    /\ FirstDestinationOpen(args')

\* C20: open with an input of several lines opens every resolved URL once and
\* in input order, without an error; every URL after the first goes to a new
\* background tab of the window, the current tab staying what the first URL
\* made it, or with the window flag each URL to a window of its own.
C20_OpenEachLine ==
    [][OpensLines
         => LET a == args'
                opened == OpenCalls(calls')
            IN /\ err' = NoError
               /\ [i \in DOMAIN opened |-> opened[i].arg] = ResolvedUrls(a)
               /\ a.window => Len(WindowCalls(calls')) = Len(opened)
               /\ ~a.window =>
                    \A i \in DOMAIN opened :
                        i > 1 => /\ opened[i].op = "tabopen"
                                 /\ indexOf(windows'[a.w].tabs, opened[i].tab) >= 0
                                 /\ TabAtIndex(windows'[a.w], windows'[a.w].cur)
                                        # Some(opened[i].tab)]_vars

----------------------------------------------------------------------------
(* open-editor and its callbacks *)

\* The callbacks a window is waiting for are kept in its callbacks field:
\* what the dispatcher has handed to a tab or an editor and not heard of yet.
MaxCallbacks == 1

MsgNoElement == "error: No element focused!"
MsgNotEditable == "error: Focused element is not editable!"
MsgNoText == "error: Could not get text from the focused element."
MsgVanished == "error: Edited element vanished"
MsgWebelemError == "error: webelem.Error"

\* A web element: the tab it is in and the page it belongs to.
Elem(tab) == [tab |-> tab.id, url |-> tab.url]

\* webelem: the element is orphaned once its tab is closed or shows another
\* page.
Orphaned(win, elem) ==
    \/ indexOf(win.tabs, elem.tab) = 0 - 1
    \/ win.tabs[indexOf(win.tabs, elem.tab) + 1].url # elem.url

open_editor(w) ==
    LET tab == currentWidget(w) IN
    /\ Dispatch
    /\ UNCHANGED <<config, prompt>>
    /\ Cardinality(windows[w].callbacks) < MaxCallbacks
    /\ IF tab = None
       THEN /\ UNCHANGED windows
            /\ Outcome("open_editor", [w |-> w], ErrNoWebView, None, <<>>, <<>>)
       ELSE /\ windows' = [windows EXCEPT ![w].callbacks =
                                @ \cup {[kind |-> "find_focused", tab |-> Val(tab)]}]
            /\ Outcome("open_editor", [w |-> w], NoError, None,
                       <<Call("elements.find_focused", Val(tab), "")>>, <<>>)

\* What find_focused can hand to its callback.
Focused == {"none", "not editable", "no text", "editable"}

\* _open_editor_cb: the tab answers find_focused.
_open_editor_cb(w, cb, focused) ==
    LET win == windows[w]
        idx == indexOf(win.tabs, cb.tab)
        a == [w |-> w, tab |-> cb.tab, focused |-> focused]
        done == [windows EXCEPT ![w].callbacks = @ \ {cb}]
    IN
    /\ cmd = Idle
    /\ UNCHANGED <<config, prompt>>
    /\ cb \in win.callbacks
    /\ cb.kind = "find_focused"
    /\ idx = 0 - 1 => focused = "none"
    /\ IF focused = "none"
       THEN windows' = done /\ Outcome("_open_editor_cb", a, NoError, None, <<>>,
                                       <<MsgNoElement>>)
       ELSE IF focused = "not editable"
       THEN windows' = done /\ Outcome("_open_editor_cb", a, NoError, None, <<>>,
                                       <<MsgNotEditable>>)
       ELSE IF focused = "no text"
       THEN windows' = done /\ Outcome("_open_editor_cb", a, NoError, None, <<>>,
                                       <<MsgNoText>>)
       ELSE /\ windows' = [windows EXCEPT ![w].callbacks =
                                (@ \ {cb}) \cup {[kind |-> "file_updated",
                                                  elem |-> Elem(win.tabs[idx + 1])]}]
            /\ Outcome("_open_editor_cb", a, NoError, None,
                       <<Call("ExternalEditor.edit", cb.tab, "")>>, <<>>)

\* on_file_updated for the element elem of window win: [err, calls, msgs].
\* fails: set_value raises a webelem.Error other than OrphanedError.
on_file_updated_uncaught(win, elem, fails) ==
    IF Orphaned(win, elem)
    THEN [err |-> "OrphanedError", calls |-> <<>>, msgs |-> <<>>]
    ELSE IF fails
    THEN [err |-> "webelem.Error", calls |-> <<>>, msgs |-> <<>>]
    ELSE [err |-> NoError, calls |-> <<Call("elem.set_value", elem.tab, "")>>,
          msgs |-> <<>>]

on_file_updated_outcome(win, elem, fails) ==
    IF Orphaned(win, elem)
    THEN [err |-> NoError, calls |-> <<Call("ed.backup", elem.tab, "")>>,
          msgs |-> <<MsgVanished>>]
    ELSE IF fails
    THEN [err |-> NoError, calls |-> <<Call("ed.backup", elem.tab, "")>>,
          msgs |-> <<MsgWebelemError>>]
    ELSE [err |-> NoError, calls |-> <<Call("elem.set_value", elem.tab, "")>>,
          msgs |-> <<>>]

\* The editor has written its file: on_file_updated runs.
on_file_updated(w, cb, fails) ==
    LET o == on_file_updated_outcome(windows[w], cb.elem, fails) IN
    /\ cmd = Idle
    /\ UNCHANGED <<windows, config, prompt>>
    /\ cb \in windows[w].callbacks
    /\ cb.kind = "file_updated"
    /\ Outcome("on_file_updated", [w |-> w, elem |-> cb.elem, fails |-> fails],
               o.err, None, o.calls, o.msgs)

\* The editor is closed: the window is raised, nothing more is heard of it.
editing_finished(w, cb) ==
    /\ cmd = Idle
    /\ UNCHANGED <<config, prompt>>
    /\ cb \in windows[w].callbacks
    /\ cb.kind = "file_updated"
    /\ windows' = [windows EXCEPT ![w].callbacks = @ \ {cb}]
    /\ Outcome("editing_finished", [w |-> w, elem |-> cb.elem], NoError, None,
               <<Call("raise_window", cb.elem.tab, "")>>, <<>>)

----------------------------------------------------------------------------
(* Specification: editors of form fields, while tabs are switched, closed   *)
(* and navigated                                                             *)

MaxUrlLen == 3

InitEditor ==
    /\ config \in {c \in Configs : c.wrap /\ c.select_on_remove = SelectRightTab}
    /\ windows \in {[w \in {0} |-> Window(0, k, cur)] :
                        <<k, cur>> \in {t \in (1 .. MaxTabs) \X (0 .. MaxTabs) :
                                            t[2] \in CurrentIndexes(t[1])}}
    /\ InitOutcome

NextEditor ==
    \/ Return
    \/ \E w \in DOMAIN windows : tab_close(w, FALSE, FALSE, FALSE, FALSE, None)
    \/ \E w \in DOMAIN windows : tab_next(w, 1)
    \/ \E w \in DOMAIN windows :
            /\ _count(w) > 0
            /\ Len(windows[w].tabs[windows[w].cur + 1].url) < MaxUrlLen
            /\ navigate(w, "up", FALSE, FALSE, FALSE, 1, FALSE)
    \/ \E w \in DOMAIN windows : open_editor(w)
    \/ \E w \in DOMAIN windows : \E cb \in windows[w].callbacks, focused \in Focused :
            _open_editor_cb(w, cb, focused)
    \/ \E w \in DOMAIN windows : \E cb \in windows[w].callbacks, fails \in BOOLEAN :
            on_file_updated(w, cb, fails)
    \/ \E w \in DOMAIN windows : \E cb \in windows[w].callbacks :
            editing_finished(w, cb)

SpecEditor == InitEditor /\ [][NextEditor]_vars

----------------------------------------------------------------------------
(* Properties of the editor callback *)

\* C21: when on_file_updated runs and the edited element is orphaned, its
\* tab closed or showing another page by then, or setting its value fails,
\* the callback shows an error message, backs up the editor's content,
\* raises nothing, does not set the value and changes no window.
C21_EditorCallback ==
    [][(cmd = Idle /\ cmd' = "on_file_updated"
            /\ (Orphaned(windows[args'.w], args'.elem) \/ args'.fails))
         => /\ err' = NoError
            /\ msgs' \in {<<MsgVanished>>, <<MsgWebelemError>>}
            /\ calls' = <<Call("ed.backup", args'.elem.tab, "")>>
            /\ windows' = windows]_vars

\* on_file_updated ran for an element whose tab had been closed.
C21_Witness ==
    /\ cmd = "on_file_updated"
    /\ indexOf(windows[args.w].tabs, args.elem.tab) = 0 - 1
    /\ msgs = <<MsgVanished>>
    /\ err = NoError

\* on_file_updated ran for an element whose tab shows another page by now.
C21_WitnessNavigated ==
    /\ cmd = "on_file_updated"
    /\ indexOf(windows[args.w].tabs, args.elem.tab) >= 0
    /\ Orphaned(windows[args.w], args.elem)
    /\ msgs = <<MsgVanished>>

----------------------------------------------------------------------------
(* Commands that hand their work to the tab: follow-selected, inspector,    *)
(* fullscreen, tab-clone, back and forward                                   *)

ErrInspector == "WebInspectorError"
ErrBeginning == "At beginning of history."
ErrEnd == "At end of history."

follow_selected(w, tab, fails) ==
    LET cur == currentWidget(w)
        a == [w |-> w, tab |-> tab, fails |-> fails]
    IN
    /\ Dispatch
    /\ UNCHANGED config
    /\ Frame
    /\ IF cur = None
       THEN Outcome("follow_selected", a, ErrNoWebView, None, <<>>, <<>>)
       ELSE Outcome("follow_selected", a, raise_CommandError(fails, ErrWebTab), None,
                    <<Call("caret.follow_selected", Val(cur),
                           IF tab THEN "tab" ELSE "")>>, <<>>)

toggle_inspector(w, fails) ==
    LET cur == currentWidget(w)
        a == [w |-> w, fails |-> fails]
    IN
    /\ Dispatch
    /\ UNCHANGED config
    /\ Frame
    /\ IF cur = None
       THEN Outcome("inspector", a, ErrNoWebView, None, <<>>, <<>>)
       ELSE Outcome("inspector", a, raise_CommandError(fails, ErrInspector), None,
                    <<Call("inspector", Val(cur), "")>>, <<>>)

\* fullscreen: with leave, exit_fullscreen is tried and an
\* UnsupportedOperationError (fails) is passed over; without, the window's
\* fullscreen state is toggled.
fullscreen(w, leave, fails) ==
    LET cur == currentWidget(w)
        a == [w |-> w, leave |-> leave, fails |-> fails]
    IN
    /\ Dispatch
    /\ UNCHANGED config
    /\ IF leave
       THEN /\ Frame
            /\ IF cur = None
               THEN Outcome("fullscreen", a, ErrNoWebView, None, <<>>, <<>>)
               ELSE Outcome("fullscreen", a, NoError, None,
                            <<Call("action.exit_fullscreen", Val(cur), "")>>, <<>>)
       ELSE /\ ~fails
            /\ SetWindow(w, [windows[w] EXCEPT !.fullscreen = ~@])
            /\ Outcome("fullscreen", a, NoError, None,
                       <<Call("setWindowState", w, "")>>, <<>>)

\* tab_clone for the dispatcher of window w on the registry ws: [windows,
\* err, ret, calls].  fails: curtab.history.serialize() raises WebTabError.
\* The clone shows the page of the current tab and is pinned as it is.
tab_clone_outcome(ws, w, bg, window, fails) ==
    LET exclusive == check_exclusive(<<bg, window>>, "bw")
        cur == TabAtIndex(ws[w], ws[w].cur)
        curtab == ws[w].tabs[ws[w].cur + 1]
        id == NewTabId(ws)
        serialize == <<Call("history.serialize", Val(cur), "")>>
        new == IF window THEN NewWindowId(ws) ELSE w
        ws2 == IF window THEN _new_tabbed_browser(ws, ws[w].private) ELSE ws
        ws3 == [ws2 EXCEPT ![new] = tabopen(@, id, curtab.url, bg, TRUE)]
        idx == indexOf(ws3[new].tabs, id)
    IN
    IF exclusive # NoError
    THEN [windows |-> ws, err |-> exclusive, ret |-> None, calls |-> <<>>]
    ELSE IF cur = None
    THEN [windows |-> ws, err |-> ErrNoWebView, ret |-> None, calls |-> <<>>]
    ELSE IF raise_CommandError(fails, ErrWebTab) # NoError
    THEN [windows |-> ws, err |-> raise_CommandError(fails, ErrWebTab), ret |-> None,
          calls |-> serialize]
    ELSE [windows |-> [ws3 EXCEPT ![new].tabs[idx + 1].pinned = curtab.pinned],
          err |-> NoError, ret |-> Some(id),
          calls |-> serialize \o <<Call("tabopen", id, curtab.url),
                                   Call("history.deserialize", id, "")>>]

tab_clone(w, bg, window, fails) ==
    LET o == tab_clone_outcome(windows, w, bg, window, fails) IN
    /\ Dispatch
    /\ UNCHANGED <<config, prompt>>
    /\ windows' = o.windows
    /\ Outcome("tab_clone", [w |-> w, bg |-> bg, window |-> window, fails |-> fails],
               o.err, o.ret, o.calls, <<>>)

\* _back_forward: can_go is what history.can_go_back() / can_go_forward()
\* answers; clone_fails and fails are the failures of tab_clone's
\* history.serialize and of history.back / history.forward.
_back_forward(w, tab, bg, window, count, forward, can_go, clone_fails, fails) ==
    LET cur == currentWidget(w)
        a == [w |-> w, tab |-> tab, bg |-> bg, window |-> window, count |-> count,
              can_go |-> can_go, clone_fails |-> clone_fails, fails |-> fails]
        name == IF forward THEN "forward" ELSE "back"
        clone == tab_clone_outcome(windows, w, bg, window, clone_fails)
    IN
    /\ Dispatch
    /\ UNCHANGED <<config, prompt>>
    /\ IF cur = None
       THEN UNCHANGED windows /\ Outcome(name, a, ErrNoWebView, None, <<>>, <<>>)
       ELSE IF ~can_go
       THEN /\ UNCHANGED windows
            /\ Outcome(name, a, IF forward THEN ErrEnd ELSE ErrBeginning, None,
                       <<>>, <<>>)
       ELSE IF tab \/ bg \/ window
       THEN /\ windows' = clone.windows
            /\ IF clone.err # NoError
               THEN Outcome(name, a, clone.err, None, clone.calls, <<>>)
               ELSE Outcome(name, a, raise_CommandError(fails, ErrWebTab), None,
                            clone.calls \o <<Call("history." \o name, Val(clone.ret),
                                                  "")>>, <<>>)
       ELSE /\ UNCHANGED windows
            /\ Outcome(name, a, raise_CommandError(fails, ErrWebTab), None,
                       <<Call("history." \o name, Val(cur), "")>>, <<>>)

----------------------------------------------------------------------------
(* Specification: the commands that hand their work to the tab, each of     *)
(* whose delegated calls may fail                                            *)

MaxCloneTabs == 3

TotalTabs == Cardinality(AllTabIds(windows))

InitDelegate ==
    /\ config \in {c \in Configs : c.wrap /\ c.select_on_remove = SelectRightTab}
    /\ windows \in {[w \in {0} |-> Window(0, k, cur)] :
                        <<k, cur>> \in {t \in (0 .. 1) \X (0 - 1 .. 0) :
                                            t[2] \in CurrentIndexes(t[1])}}
    /\ InitOutcome

NextDelegate ==
    \/ Return
    \/ \E w \in DOMAIN windows, mode \in {"preview", "pdf", "dialog"},
          count \in {None, Some(1)}, fails \in BOOLEAN : printpage(w, mode, count, fails)
    \/ \E w \in DOMAIN windows, count \in {None, Some(1)}, fails \in BOOLEAN :
            tab_mute(w, count, fails)
    \/ \E w \in DOMAIN windows, tab, fails \in BOOLEAN : follow_selected(w, tab, fails)
    \/ \E w \in DOMAIN windows, fails \in BOOLEAN : toggle_inspector(w, fails)
    \/ \E w \in DOMAIN windows, leave, fails \in BOOLEAN : fullscreen(w, leave, fails)
    \/ \E w \in DOMAIN windows, bg, window, fails \in BOOLEAN :
            /\ TotalTabs < MaxCloneTabs
            /\ tab_clone(w, bg, window, fails)
    \/ \E w \in DOMAIN windows, tab, bg, window, forward, can_go, clone_fails,
          fails \in BOOLEAN :
            /\ TotalTabs < MaxCloneTabs
            /\ _back_forward(w, tab, bg, window, 1, forward, can_go, clone_fails, fails)

SpecDelegate == InitDelegate /\ [][NextDelegate]_vars

----------------------------------------------------------------------------
(* Properties of error surfacing *)

\* The delegated call of the step has been made and has failed.
DelegatedFailure(name) ==
    /\ cmd = Idle
    /\ cmd' = name
    /\ args'.fails
    /\ calls' # <<>>
    /\ calls'[Len(calls')].op \notin {"history.serialize", "tabopen"}

SerializeFailure ==
    /\ cmd = Idle
    /\ cmd' \in {"tab_clone", "back", "forward"}
    /\ calls' # <<>>
    /\ calls'[Len(calls')].op = "history.serialize"

Surfacing == {"print", "tab_mute", "follow_selected", "inspector", "back", "forward"}

C22_WitnessFullscreen ==
    /\ cmd = "fullscreen"
    /\ args.leave
    /\ args.fails
    /\ calls # <<>>
    /\ err = NoError

----------------------------------------------------------------------------
(* tab-only *)

ErrAssertion == "AssertionError"

_to_close_all(i, cur_idx, prev, next_) == TRUE

\* _to_close(i) inside tab_only
_to_close(i, cur_idx, prev, next_) ==
    ~(i = cur_idx \/ (prev /\ i < cur_idx) \/ (next_ /\ i > cur_idx))

\* close_tab for each tab of ids in turn
RECURSIVE close_tabs(_, _)
close_tabs(win, ids) ==
    IF ids = <<>> THEN {win}
    ELSE UNION {close_tabs(w2, Tail(ids)) : w2 \in close_tab(win, Head(ids))}

\* The loop of tab_only over the tabs from index i on: the tabs to close now,
\* in order, and the last pinned tab left for the confirmation.
RECURSIVE tab_only_loop(_, _, _, _, _, _)
tab_only_loop(tabs, i, cur_idx, prev, next_, force) ==
    IF i >= Len(tabs) THEN [closed |-> <<>>, pinned_tabs_cleanup |-> None]
    ELSE LET rest == tab_only_loop(tabs, i + 1, cur_idx, prev, next_, force)
             tab == tabs[i + 1]
         IN IF ~_to_close(i, cur_idx, prev, next_) THEN rest
            ELSE IF force \/ ~tab.pinned
            THEN [rest EXCEPT !.closed = <<tab.id>> \o @]
            ELSE IF rest.pinned_tabs_cleanup = None
            THEN [rest EXCEPT !.pinned_tabs_cleanup = Some(tab.id)]
            ELSE rest

\* tab_only on the window win: a set of [win, err, closed, pinned_tabs_cleanup]
tab_only_outcome(win, prev, next_, force) ==
    LET exclusive == check_exclusive(<<prev, next_>>, "pn")
        loop == tab_only_loop(win.tabs, 0, win.cur, prev, next_, force)
    IN
    IF exclusive # NoError
    THEN {[win |-> win, err |-> exclusive, closed |-> <<>>,
           pinned_tabs_cleanup |-> None]}
    ELSE IF win.cur = 0 - 1
    THEN {[win |-> win, err |-> ErrAssertion, closed |-> <<>>,
           pinned_tabs_cleanup |-> None]}
    ELSE {[win |-> w2, err |-> NoError, closed |-> loop.closed,
           pinned_tabs_cleanup |-> loop.pinned_tabs_cleanup] :
            w2 \in close_tabs(win, loop.closed)}

\* The whole of tab_only; from is "command" or "confirm".
tab_only_step(w, prev, next_, force, from) ==
    \E o \in tab_only_outcome(windows[w], prev, next_, force) :
        /\ windows' = [windows EXCEPT ![w] = o.win]
        /\ prompt' = IF o.pinned_tabs_cleanup = None THEN None
                     ELSE Some([w |-> w, tab |-> Val(o.pinned_tabs_cleanup),
                                prev |-> prev, next_ |-> next_,
                                yes_action |-> "tab_only"])
        /\ Outcome("tab_only",
                   [w |-> w, prev |-> prev, next_ |-> next_, force |-> force,
                    from |-> from],
                   o.err, None,
                   [i \in DOMAIN o.closed |-> Call("close_tab", o.closed[i], "")]
                     \o (IF o.pinned_tabs_cleanup = None THEN <<>>
                         ELSE <<Call("confirm_async", Val(o.pinned_tabs_cleanup),
                                     "Pinned Tab")>>),
                   <<>>)

tab_only(w, prev, next_, force) ==
    /\ Dispatch
    /\ UNCHANGED config
    /\ tab_only_step(w, prev, next_, force, "command")

\* The user confirms the prompt of tab_only: its yes_action runs tab_only
\* again, with force.
confirm_yes_tab_only ==
    /\ cmd = Idle
    /\ prompt # None
    /\ Val(prompt).yes_action = "tab_only"
    /\ UNCHANGED config
    /\ tab_only_step(Val(prompt).w, Val(prompt).prev, Val(prompt).next_, TRUE, "confirm")

----------------------------------------------------------------------------
(* Specification: tab-only in windows of pinned and unpinned tabs *)

MaxOnlyTabs == 3

InitOnly == Init

NextOnly ==
    \/ Return
    \/ \E w \in DOMAIN windows, background \in BOOLEAN :
            _count(w) < MaxOnlyTabs /\ TabOpen(w, background, FALSE)
    \/ \E w \in DOMAIN windows, count \in {Some(c) : c \in 1 .. MaxOnlyTabs} :
            tab_pin(w, count)
    \/ \E w \in DOMAIN windows : tab_next(w, 1)
    \/ \E w \in DOMAIN windows, prev, next_, force \in BOOLEAN :
            tab_only(w, prev, next_, force)
    \/ confirm_yes_tab_only
    \/ confirm_no

SpecOnly == InitOnly /\ [][NextOnly]_vars

----------------------------------------------------------------------------
(* Properties of tab-only *)

IdsOf(win) == {win.tabs[i].id : i \in DOMAIN win.tabs}

\* The tabs of win that tab_only is to close, by the positions they have
\* when it starts.
ToClose(win, prev, next_, force) ==
    {win.tabs[i + 1].id : i \in {j \in 0 .. (Len(win.tabs) - 1) :
        /\ j # win.cur
        /\ ~(prev /\ j < win.cur)
        /\ ~(next_ /\ j > win.cur)
        /\ (force \/ ~win.tabs[j + 1].pinned)}}

\* C23: tab_only closes exactly the tabs at positions i # current that are
\* not kept by prev (i < current) or next (i > current) and that are unpinned
\* or force is set; the current tab stays current; prev and next together are
\* an error with nothing closed and nothing asked; a pinned tab is closed only
\* with force, which without the flag is given by the answered confirmation.
C23_TabOnly ==
    [][(cmd = Idle /\ cmd' = "tab_only" /\ windows[args'.w].cur >= 0)
         => LET a == args'
                win == windows[a.w]
                after == windows'[a.w]
            IN IF a.prev /\ a.next_
               THEN err' = ErrExclusive("pn") /\ windows' = windows /\ prompt' = None
               ELSE /\ err' = NoError
                    /\ IdsOf(win) \ IdsOf(after)
                         = ToClose(win, a.prev, a.next_, a.force)
                    /\ IdsOf(after) \subseteq IdsOf(win)
                    /\ after.cur >= 0
                    /\ after.tabs[after.cur + 1].id = win.tabs[win.cur + 1].id
                    /\ \A i \in DOMAIN win.tabs :
                         (win.tabs[i].pinned /\ win.tabs[i].id \notin IdsOf(after))
                            => (a.force /\ (a.from = "confirm" => prompt # None))
                    /\ (prompt' # None)
                         <=> (ToClose(win, a.prev, a.next_, TRUE)
                                # ToClose(win, a.prev, a.next_, a.force))]_vars

\* tab_only without force closed an unpinned tab, kept a pinned one and asks.
C23_Witness ==
    /\ cmd = "tab_only"
    /\ ~args.force
    /\ ~args.prev
    /\ ~args.next_
    /\ prompt # None
    /\ Len(calls) = 2
    /\ Len(windows[args.w].tabs) = 2

\* the confirmation was answered and the pinned tab is closed.
C23_WitnessConfirmed ==
    /\ cmd = "tab_only"
    /\ args.from = "confirm"
    /\ calls # <<>>
    /\ Len(windows[args.w].tabs) = 1

----------------------------------------------------------------------------
(* Properties of the private mode of new windows *)

NewWindows == DOMAIN windows' \ DOMAIN windows

\* The private flag is not given: open has it FALSE by default, a helper
\* command calls _open without it.
PrivateNotGiven ==
    \/ cmd' = "open" /\ ~args'.private
    \/ cmd' = "_open" /\ args'.private = None

\* C24: when a command opens a URL in a new window and the private flag is
\* not given, the new window has the private mode of the window the command
\* was given in: from a private window, open --window and the helper commands
\* (quickmark-load, help, navigate, ...) make private windows.
C24_PrivateInherited ==
    [][(/\ cmd = Idle
        /\ cmd' \in {"open", "_open"}
        /\ args'.window
        /\ PrivateNotGiven
        /\ windows[args'.w].cur >= 0)
         => \A new \in NewWindows : windows'[new].private = windows[args'.w].private]_vars

----------------------------------------------------------------------------
(* tab-take *)

ErrTakeSameWindow == "Can't take a tab from the same window"

\* tab_take that leaves the tab where it was
tab_take_copy(ws, w, index, match, active) ==
    LET r == _resolve_buffer_index(ws, w, index, match, active)
        tab == ws[r.win_id].tabs[r.idx]
        o == _open(ws, w, tab.url, TRUE, FALSE, FALSE, FALSE, None)
    IN
    IF r.err # NoError THEN {[windows |-> ws, err |-> r.err, calls |-> <<>>]}
    ELSE IF r.win_id = w
    THEN {[windows |-> ws, err |-> ErrTakeSameWindow, calls |-> <<>>]}
    ELSE {o}

\* tab_take for the dispatcher of window w on the registry ws: a set of
\* [windows, err, calls]
tab_take_outcomes(ws, w, index, match, active) ==
    LET r == _resolve_buffer_index(ws, w, index, match, active)
        tab == ws[r.win_id].tabs[r.idx]
        o == _open(ws, w, tab.url, TRUE, FALSE, FALSE, FALSE, None)
    IN
    IF r.err # NoError THEN {[windows |-> ws, err |-> r.err, calls |-> <<>>]}
    ELSE IF r.win_id = w
    THEN {[windows |-> ws, err |-> ErrTakeSameWindow, calls |-> <<>>]}
    ELSE IF o.err # NoError THEN {o}
    ELSE {[windows |-> [o.windows EXCEPT ![r.win_id] = closed], err |-> NoError,
           calls |-> o.calls \o <<Call("close_tab", tab.id, "add_undo=False")>>] :
            closed \in close_tab(o.windows[r.win_id], tab.id)}

tab_take(w, index, match, active) ==
    /\ Dispatch
    /\ UNCHANGED <<config, prompt>>
    /\ \E o \in tab_take_outcomes(windows, w, index, match, active) :
            /\ windows' = o.windows
            /\ Outcome("tab_take",
                       [w |-> w, index |-> index, match |-> match, active |-> active],
                       o.err, None, o.calls, <<>>)

----------------------------------------------------------------------------
(* Specification: one tab-give or tab-take with two windows of up to        *)
(* MaxBufferTabs tabs                                                        *)

InitTransfer == InitGive

tab_give_call ==
    /\ Dispatch
    /\ \E w \in DOMAIN windows,
          win_id \in {None} \cup {Some(i) : i \in 0 .. 2},
          count \in {None} \cup {Some(c) : c \in 0 .. 3} :
            tab_give(w, win_id, count)

tab_take_call ==
    /\ Dispatch
    /\ \E w \in DOMAIN windows, index \in BufferIndexes \ {None},
          match \in {m \in BufferMatches :
                        m = None \/ Val(m)[2].val <= Len(windows[Val(m)[1].val].tabs)},
          active \in {None} \cup {Some(v) : v \in DOMAIN windows} :
            tab_take(w, Val(index), match, active)

NextTransfer == tab_give_call \/ tab_take_call

SpecTransfer == InitTransfer /\ [][NextTransfer]_vars

----------------------------------------------------------------------------
(* Properties of tab transfer *)

RECURSIVE TabTotal(_, _)
TabTotal(ws, dom) ==
    IF dom = {} THEN 0
    ELSE LET w == CHOOSE x \in dom : TRUE
         IN Len(ws[w].tabs) + TabTotal(ws, dom \ {w})

\* The window other has lost the tab id and nothing else.
LostOnly(other, id) ==
    /\ id \in IdsOf(windows[other])
    /\ IdsOf(windows'[other]) = IdsOf(windows[other]) \ {id}
    /\ Len(windows'[other].tabs) = Len(windows[other].tabs) - 1

\* The window target has gained one tab, showing url, and nothing else.
GainedOne(before, after, url) ==
    /\ Len(after.tabs) = Len(before.tabs) + 1
    /\ IdsOf(before) \subseteq IdsOf(after)
    /\ \E i \in DOMAIN after.tabs :
            /\ after.tabs[i].id \notin AllTabIds(windows)
            /\ after.tabs[i].url = url

Took ==
    LET a == args'
        r == _resolve_buffer_index(windows, a.w, a.index, a.match, a.active)
    IN /\ r.win_id # a.w
       /\ GainedOne(windows[a.w], windows'[a.w], windows[r.win_id].tabs[r.idx].url)
       /\ LostOnly(r.win_id, windows[r.win_id].tabs[r.idx].id)
       /\ DOMAIN windows' = DOMAIN windows

Gave ==
    LET a == args'
        cur == windows[a.w].tabs[windows[a.w].cur + 1]
    IN /\ LostOnly(a.w, cur.id)
       /\ \E target \in DOMAIN windows' \ {a.w} :
            /\ GainedOne(IF target \in DOMAIN windows THEN windows[target]
                         ELSE NewWindow(FALSE, SelectRightTab),
                         windows'[target], cur.url)
            /\ \A other \in DOMAIN windows' \ {a.w, target} :
                    other \in DOMAIN windows /\ windows'[other].tabs = windows[other].tabs

\* C25: a successful tab_give takes the current tab, and only it, out of
\* this window and puts one tab with its URL into the target window; a
\* successful tab_take puts one tab with the resolved tab's URL into this
\* window and takes the resolved tab, and only it, out of the other window;
\* the number of tabs over all windows stays the same, the closing is asked
\* for without an undo entry, and tab_take takes no tab out of its own
\* window: a source in the same window is an error that changes nothing.
C25_Conservation ==
    [][(cmd = Idle /\ cmd' \in {"tab_give", "tab_take"})
         => /\ err' = NoError
                => /\ TabTotal(windows', DOMAIN windows')
                        = TabTotal(windows, DOMAIN windows)
                   /\ IF cmd' = "tab_take" THEN Took ELSE Gave
                   /\ \E i \in DOMAIN calls' : calls'[i].op = "close_tab"
                   /\ \A i \in DOMAIN calls' :
                        calls'[i].op = "close_tab" => calls'[i].arg = "add_undo=False"
            /\ cmd' = "tab_take"
                => /\ IdsOf(windows[args'.w]) \subseteq IdsOf(windows'[args'.w])
                   /\ err' = ErrTakeSameWindow => windows' = windows]_vars

\* a tab was taken from the other window
C25_Witness ==
    /\ cmd = "tab_take"
    /\ err = NoError
    /\ Len(calls) = 2
    /\ Len(windows[args.w].tabs) = MaxBufferTabs + 1

\* a tab was given to an existing window
C25_WitnessGive ==
    /\ cmd = "tab_give"
    /\ err = NoError
    /\ args.win_id # None
    /\ Len(calls) = 2

\* tab_take of a tab of the same window
C25_WitnessSameWindow ==
    /\ cmd = "tab_take"
    /\ err = ErrTakeSameWindow

----------------------------------------------------------------------------
(* Specification: tab-close with its confirmation, while pages close their  *)
(* own tabs                                                                  *)

\* The page of a tab closes it (window.close()): the tabbed browser closes
\* the tab, also while a confirmation is open.
window_close_requested(w, id) ==
    /\ cmd = Idle
    /\ id \in IdsOf(windows[w])
    /\ UNCHANGED <<config, prompt>>
    /\ \E closed \in close_tab(windows[w], id) :
            windows' = [windows EXCEPT ![w] = closed]
    /\ Outcome("window_close_requested", [w |-> w, tab |-> id], NoError, None,
               <<Call("close_tab", id, "")>>, <<>>)

InitClose ==
    /\ config \in {c \in Configs : c.wrap /\ c.select_on_remove = SelectRightTab}
    /\ windows = [w \in {0} |-> NewWindow(FALSE, config.select_on_remove)]
    /\ InitOutcome

NextClose ==
    \/ Return
    \/ \E w \in DOMAIN windows : _count(w) < MaxTabs /\ TabOpen(w, FALSE, FALSE)
    \/ \E w \in DOMAIN windows : tab_pin(w, None)
    \/ \E w \in DOMAIN windows, prev, next_, opposite, force \in BOOLEAN :
            tab_close(w, prev, next_, opposite, force, None)
    \/ confirm_yes
    \/ confirm_no
    \/ \E w \in DOMAIN windows, id \in 1 .. MaxTabs : window_close_requested(w, id)

SpecClose == InitClose /\ [][NextClose]_vars

----------------------------------------------------------------------------
(* Properties of the selection override *)

\* C26: when _tab_close has run with prev, next or opposite set, at once or
\* from the answered confirmation, with the tab closed or with the closing
\* failed, the tab bar's selection behaviour on remove is what it was before.
C26_OverrideRestored ==
    [][(/\ cmd = Idle
        /\ cmd' \in {"tab_close", "_tab_close"}
        /\ (args'.prev \/ args'.next_ \/ args'.opposite))
         => windows'[args'.w].selection_behavior
                = windows[args'.w].selection_behavior]_vars

----------------------------------------------------------------------------
(* Properties of the stored search *)

SearchSteps == {"search.search", "search.next_result", "search.prev_result"}

C27_WitnessClear ==
    /\ cmd = "search"
    /\ args.text = ""
    /\ Len(calls) = 2
    /\ windows[args.w].search_text # None

----------------------------------------------------------------------------
(* Properties of the result callback of a search continuation *)

\* C28: a search_next or search_prev with a count of at least 0 that asks
\* the tab for a search or a result step has the result callback on one of
\* them, so that a text that is not found is reported, once; with a count of
\* 0 the tab is asked for no step at all.
C28_ResultReported ==
    [][(cmd = Idle /\ cmd' \in SearchContinuations /\ err' = NoError /\ args'.count >= 0)
         => LET stepped == \E i \in DOMAIN calls' : calls'[i].op \in SearchSteps IN
            /\ (stepped /\ args'.result = "missing") => msgs' = <<MsgNotFound>>
            /\ args'.count = 0 => ~stepped]_vars

----------------------------------------------------------------------------
(* Properties of the indexes of tab navigation *)

\* C29: in every reachable state, a window without tabs included, tab_next,
\* tab_prev and tab_move (absolute and relative, wrapping or not) end without
\* an error or with the command error, never with a division by zero; they
\* leave the window as it is or with the same tabs and a current index
\* inside [0, tab_count).
C29_IndexSafety ==
    [][(cmd = Idle /\ cmd' \in {"tab_prev", "tab_next", "tab_move"})
         => LET win == windows[args'.w]
                after == windows'[args'.w]
            IN /\ err' \in {NoError, ErrCantMove, ErrOverflow}
               /\ \/ after = win
                  \/ /\ IdsOf(after) = IdsOf(win)
                     /\ 0 <= after.cur
                     /\ after.cur < Len(after.tabs)]_vars

----------------------------------------------------------------------------
(* spawn, and the selection callback of spawn --userscript *)

ErrSplit == "Error while splitting command"
MsgUserscript == "error: userscripts.Error"

\* spawn: splits is whether shlex.split(cmdline) succeeds.
spawn(w, userscript, detach, count, splits) ==
    LET exclusive == check_exclusive(<<userscript, detach>>, "ud")
        tab == currentWidget(w)
        a == [w |-> w, userscript |-> userscript, detach |-> detach, count |-> count,
              splits |-> splits]
    IN
    /\ Dispatch
    /\ UNCHANGED <<config, prompt>>
    /\ Cardinality(windows[w].callbacks) < MaxCallbacks
    /\ IF exclusive # NoError
       THEN UNCHANGED windows /\ Outcome("spawn", a, exclusive, None, <<>>, <<>>)
       ELSE IF ~splits
       THEN UNCHANGED windows /\ Outcome("spawn", a, ErrSplit, None, <<>>, <<>>)
       ELSE IF ~userscript
       THEN /\ UNCHANGED windows
            /\ Outcome("spawn", a, NoError, None,
                       <<Call(IF detach THEN "proc.start_detached" ELSE "proc.start",
                              None, "")>>, <<>>)
       ELSE IF tab = None
       THEN UNCHANGED windows /\ Outcome("spawn", a, ErrNoWebView, None, <<>>, <<>>)
       ELSE /\ windows' = [windows EXCEPT ![w].callbacks =
                                @ \cup {[kind |-> "selection", tab |-> Val(tab),
                                         count |-> count]}]
            /\ Outcome("spawn", a, NoError, None,
                       <<Call("caret.selection", Val(tab), "")>>, <<>>)

\* What run_async may do: start the script, raise userscripts.Error, or fail
\* in another way (it is given no tab).
Raises == {"nothing", "userscripts.Error", "other"}

\* _run_userscript for the selection of the tab selected_in: [err, calls].
\* The title, the tab and the URL are those of the tab that is current now.
_run_userscript(win, selected_in, count, raises) ==
    LET idx == win.cur
        tab == TabAtIndex(win, win.cur)
        url == _current_url(win)
        env == [QUTE_SELECTED_TEXT |-> Some(selected_in),
                QUTE_COUNT |-> count,
                QUTE_TITLE |-> IF idx # 0 - 1 THEN tab ELSE None,
                QUTE_URL |-> IF tab # None /\ url.err = NoError THEN Some(url.url)
                             ELSE None]
    IN [err |-> IF raises = "userscripts.Error" THEN MsgUserscript
                ELSE IF raises = "other" THEN "Error"
                ELSE NoError,
        calls |-> <<Call("userscripts.run_async", tab, env)>>]

\* The tab answers caret.selection: _selection_callback runs; a CommandError
\* of _run_userscript becomes a message.
_selection_callback(w, cb, raises) ==
    LET o == _run_userscript(windows[w], cb.tab, cb.count, raises) IN
    /\ cmd = Idle
    /\ UNCHANGED <<config, prompt>>
    /\ cb \in windows[w].callbacks
    /\ cb.kind = "selection"
    /\ currentWidget(w) = None => raises # "nothing"
    /\ currentWidget(w) # None => raises # "other"
    /\ windows' = [windows EXCEPT ![w].callbacks = @ \ {cb}]
    /\ Outcome("_selection_callback", [w |-> w, tab |-> cb.tab, raises |-> raises],
               IF o.err = MsgUserscript THEN NoError ELSE o.err, None, o.calls,
               IF o.err = MsgUserscript THEN <<MsgUserscript>> ELSE <<>>)

----------------------------------------------------------------------------
(* Specification: spawn in a window whose tabs are switched and closed      *)
(* before the selection arrives                                              *)

InitSpawn ==
    /\ config \in {c \in Configs : c.wrap /\ c.select_on_remove = SelectRightTab}
    /\ windows \in {[w \in {0} |-> Window(0, k, cur)] :
                        <<k, cur>> \in {t \in (1 .. MaxTabs) \X (0 .. MaxTabs) :
                                            t[2] \in CurrentIndexes(t[1])}}
    /\ InitOutcome

NextSpawn ==
    \/ Return
    \/ \E w \in DOMAIN windows : tab_close(w, FALSE, FALSE, FALSE, FALSE, None)
    \/ \E w \in DOMAIN windows : tab_next(w, 1)
    \/ \E w \in DOMAIN windows :
            /\ _count(w) > 0
            /\ Len(windows[w].tabs[windows[w].cur + 1].url) < MaxUrlLen
            /\ navigate(w, "up", FALSE, FALSE, FALSE, 1, FALSE)
    \/ \E w \in DOMAIN windows, userscript, detach, splits \in BOOLEAN,
          count \in {None, Some(1)} : spawn(w, userscript, detach, count, splits)
    \/ \E w \in DOMAIN windows : \E cb \in windows[w].callbacks, raises \in Raises :
            _selection_callback(w, cb, raises)

SpecSpawn == InitSpawn /\ [][NextSpawn]_vars

----------------------------------------------------------------------------
(* Properties of spawn --userscript *)

\* C30: when the selection callback of spawn --userscript runs, the
\* userscript is started against the tab the command was given on, the one
\* the selection was requested from, whatever tab is current by then, and a
\* failure of the start is shown as a message and not raised.
C30_UserscriptTab ==
    [][(cmd = Idle /\ cmd' = "_selection_callback" /\ windows[args'.w].cur >= 0)
         => /\ err' = NoError
            /\ \A i \in DOMAIN calls' :
                    calls'[i].op = "userscripts.run_async"
                        => /\ calls'[i].tab = Some(args'.tab)
                           /\ calls'[i].arg.QUTE_TITLE = Some(args'.tab)]_vars

====
